---- MODULE Spec2Model ----
(***************************************************************************)
(* Portfolio tracker: the transaction ledger, the position replay engine   *)
(* (compute_market_position / compute_manual_position) and the routes      *)
(* that write the ledger (create_asset, add/edit/delete transaction).      *)
(*                                                                         *)
(* Numbers.  Python floats are modelled as exact rationals <<n, d>> in     *)
(* lowest terms with d > 0; <<1, 0>> is +inf; None is the empty tuple.     *)
(* Amounts (quantity, fees, money, manual_value, invested_override) are    *)
(* counted in ticks, one tick being the replay tolerance 1e-9; prices and  *)
(* average costs are ratios of two amounts, so they carry no unit.         *)
(* Rounding of binary floating point is not modelled.                      *)
(***************************************************************************)
EXTENDS Integers, Sequences, FiniteSets, TLC

(***************************************************************************)
(* Bounds of the model                                                     *)
(***************************************************************************)
\* largest quantity, in ticks, an input may carry
MaxQty == 3
\* largest price / manual value / invested override an input may carry
MaxPrice == 2
\* number of transactions one replay processes
MaxReplayLen == 3
\* largest transaction id the ledger hands out
MaxTxId == 2
\* number of ledger requests that may be between their read and their commit
MaxInFlight == 2
\* length of the lists the replay functions are called on
MaxListLen == 2
\* latest wall-clock reading of a timestamp
MaxStamp == 2
\* assets of the portfolio a dashboard request shows
MaxAssets == 2
\* baskets of that portfolio
MaxBaskets == 2
\* keys of a dict handed to compute_allocation_percentages
MaxKeys == 2
\* latest clock reading of a quote request, in units of the cache ttl
MaxClock == 2
\* get_quote calls followed
MaxCalls == 3
\* days the portfolio chart can span
MaxDays == 3

(***************************************************************************)
(* Floats as rationals                                                     *)
(***************************************************************************)
None == <<>>

Abs(i) == IF i < 0 THEN -i ELSE i

RECURSIVE GCD(_, _)
GCD(a, b) == IF b = 0 THEN a ELSE GCD(b, a % b)

\* the float n/d in lowest terms (d > 0); with d = 0 it is +inf, -inf or,
\* for 0/0, nan
Norm(n, d) ==
    IF d = 0 THEN <<IF n > 0 THEN 1 ELSE IF n < 0 THEN -1 ELSE 0, 0>>
    ELSE LET g == GCD(Abs(n), d) IN <<n \div g, d \div g>>

R(i) == <<i, 1>>
Zero == R(0)
One == R(1)
PosInf == <<1, 0>>
NaN == <<0, 0>>

isfinite(x) == x[2] # 0

\* inf + inf is inf, inf - inf is nan
RAdd(x, y) ==
    IF x[2] = 0 /\ y[2] = 0 THEN (IF x = y THEN x ELSE NaN)
    ELSE Norm(x[1] * y[2] + y[1] * x[2], x[2] * y[2])
RSub(x, y) ==
    IF x[2] = 0 /\ y[2] = 0 THEN (IF x[1] = -y[1] THEN x ELSE NaN)
    ELSE Norm(x[1] * y[2] - y[1] * x[2], x[2] * y[2])
RMul(x, y) == Norm(x[1] * y[1], x[2] * y[2])
RDiv(x, y) == IF y[1] > 0 THEN Norm(x[1] * y[2], x[2] * y[1])
              ELSE Norm(-(x[1] * y[2]), x[2] * (-y[1]))
\* comparisons; they are also right when a side is infinite, and false
\* when a side is nan
RLt(x, y) ==
    IF x[2] = 0 /\ y[2] = 0 THEN x # NaN /\ y # NaN /\ x[1] < y[1]
    ELSE x[1] * y[2] < y[1] * x[2]
RLe(x, y) ==
    IF x = NaN \/ y = NaN THEN FALSE
    ELSE IF x[2] = 0 /\ y[2] = 0 THEN x[1] <= y[1]
    ELSE x[1] * y[2] <= y[1] * x[2]
RGt(x, y) == RLt(y, x)

\* the tolerance 1e-9 of the replay loops: one tick
Eps == 1
EpsR == R(Eps)

(***************************************************************************)
(* Transactions and their accessors                                        *)
(***************************************************************************)
BUY == "BUY"
SELL == "SELL"
MANUAL_VALUE_UPDATE == "MANUAL_VALUE_UPDATE"
TransactionType == {BUY, SELL, MANUAL_VALUE_UPDATE}

MARKET == "market"
MANUAL == "manual"
AssetType == {MARKET, MANUAL}

\* an optional value that is present
Some(v) == <<v>>

\* a datetime: wall-clock reading and tz, <<>> when naive, <<offset>> when aware
Naive(w) == [wall |-> w, tz |-> <<>>]
Aware(w, off) == [wall |-> w, tz |-> <<off>>]

_as_utc(value) == IF value.tz = <<>> THEN value.wall ELSE value.wall - value.tz[1]

_tx_type(tx) == tx.type
_tx_timestamp(tx) == _as_utc(tx.timestamp)
\* int(id or 0): an absent id is written 0
_tx_id(tx) == tx.id
_tx_quantity(tx) == IF tx.quantity = None THEN Zero ELSE tx.quantity
_tx_price(tx) == IF tx.price = None THEN Zero ELSE tx.price
_tx_fees(tx) == IF tx.fees = None THEN Zero ELSE tx.fees
_tx_manual_value(tx) == IF tx.manual_value = None THEN Zero ELSE tx.manual_value
_tx_invested_override(tx) == tx.invested_override

\* a sort key without the id: ties keep the input order
SortKeyLe_TimestampOnly(a, b) == _tx_timestamp(a) <= _tx_timestamp(b)

\* sorted() key of sort_transactions: (timestamp as UTC, id)
SortKeyLe(a, b) ==
    \/ _tx_timestamp(a) < _tx_timestamp(b)
    \/ /\ _tx_timestamp(a) = _tx_timestamp(b)
       /\ _tx_id(a) <= _tx_id(b)

\* sorted() is stable: x goes after every element whose key is <= key(x)
RECURSIVE InsertByKey(_, _)
InsertByKey(r, x) ==
    IF r = <<>> THEN <<x>>
    ELSE IF SortKeyLe(r[Len(r)], x) THEN Append(r, x)
    ELSE Append(InsertByKey(SubSeq(r, 1, Len(r) - 1), x), r[Len(r)])

RECURSIVE SortedPrefix(_, _)
SortedPrefix(s, n) ==
    IF n = 0 THEN <<>> ELSE InsertByKey(SortedPrefix(s, n - 1), s[n])

sort_transactions(transactions) == SortedPrefix(transactions, Len(transactions))

(***************************************************************************)
(* Market position replay                                                  *)
(***************************************************************************)
NoError == ""

\* the loop variables of compute_market_position before the first transaction
MarketStart == [qty |-> Zero, avg_cost |-> Zero, error |-> NoError]

MarketRaise(st, msg) == [st EXCEPT !.error = msg]

\* a BUY branch that leaves the fees out of the cost
MarketBuy_FeesDropped(st, quantity, price, fees) ==
    IF RLe(quantity, Zero) THEN MarketRaise(st, "BUY quantity must be positive")
    ELSE IF ~isfinite(price) THEN MarketRaise(st, "BUY price must be a finite number")
    ELSE IF RLt(fees, Zero) THEN MarketRaise(st, "Fees cannot be negative")
    ELSE LET new_cost_total == RAdd(RMul(st.qty, st.avg_cost), RMul(quantity, price))
             qty == RAdd(st.qty, quantity)
         IN  [qty |-> qty,
              avg_cost |-> IF RGt(qty, Zero) THEN RDiv(new_cost_total, qty) ELSE Zero,
              error |-> NoError]

\* BUY branch of the loop body
MarketBuy(st, quantity, price, fees) ==
    IF RLe(quantity, Zero) THEN MarketRaise(st, "BUY quantity must be positive")
    ELSE IF ~isfinite(price) THEN MarketRaise(st, "BUY price must be a finite number")
    ELSE IF RLt(fees, Zero) THEN MarketRaise(st, "Fees cannot be negative")
    ELSE LET new_cost_total == RAdd(RAdd(RMul(st.qty, st.avg_cost), RMul(quantity, price)), fees)
             qty == RAdd(st.qty, quantity)
         IN  [qty |-> qty,
              avg_cost |-> IF RGt(qty, Zero) THEN RDiv(new_cost_total, qty) ELSE Zero,
              error |-> NoError]

\* an oversell test without the tolerance
MarketOversold_NoTolerance(held, quantity) == RGt(quantity, held)

\* the oversell test of the SELL branch
MarketOversold(held, quantity) == RGt(RSub(quantity, held), EpsR)

\* a reset test without the tolerance
MarketEmptied_ExactZero(qty) == RLe(qty, Zero)

\* the test that resets a position emptied by a SELL
MarketEmptied(qty) == RLe(qty, EpsR)

\* SELL branch of the loop body
MarketSell_RealizesGain(st, quantity, price) ==
    IF RLe(quantity, Zero) THEN MarketRaise(st, "SELL quantity must be positive")
    ELSE IF RLe(price, Zero) THEN MarketRaise(st, "SELL price must be positive")
    ELSE IF MarketOversold(st.qty, quantity)
         THEN MarketRaise(st, "Cannot sell more than currently held quantity")
    ELSE LET qty == RSub(st.qty, quantity)
         IN  IF MarketEmptied(qty)
             THEN [qty |-> Zero, avg_cost |-> Zero, error |-> NoError]
             ELSE [qty |-> qty,
                   avg_cost |-> RDiv(RSub(RMul(st.qty, st.avg_cost), RMul(quantity, price)), qty),
                   error |-> NoError]

MarketSell(st, quantity, price) ==
    IF RLe(quantity, Zero) THEN MarketRaise(st, "SELL quantity must be positive")
    ELSE IF RLe(price, Zero) THEN MarketRaise(st, "SELL price must be positive")
    ELSE IF MarketOversold(st.qty, quantity)
         THEN MarketRaise(st, "Cannot sell more than currently held quantity")
    ELSE LET qty == RSub(st.qty, quantity)
         IN  IF MarketEmptied(qty)
             THEN [qty |-> Zero, avg_cost |-> Zero, error |-> NoError]
             ELSE [qty |-> qty, avg_cost |-> st.avg_cost, error |-> NoError]

\* what the loop does with a MANUAL_VALUE_UPDATE: `continue`
MarketManualValueUpdate(st) == st

\* one iteration of the loop of compute_market_position
MarketStep(st, tx) ==
    IF _tx_type(tx) = MANUAL_VALUE_UPDATE THEN MarketManualValueUpdate(st)
    ELSE IF _tx_type(tx) = BUY
         THEN MarketBuy(st, _tx_quantity(tx), _tx_price(tx), _tx_fees(tx))
    ELSE IF _tx_type(tx) = SELL
         THEN MarketSell(st, _tx_quantity(tx), _tx_price(tx))
    ELSE MarketRaise(st, "Unsupported transaction type: " \o _tx_type(tx))

RECURSIVE MarketFold(_, _, _)
MarketFold(st, txs, i) ==
    IF i > Len(txs) \/ st.error # NoError THEN st
    ELSE MarketFold(MarketStep(st, txs[i]), txs, i + 1)

\* MarketPosition(quantity, avg_cost), or the InvalidTransaction raised
compute_market_position(transactions) ==
    LET st == MarketFold(MarketStart, sort_transactions(transactions), 1)
    IN  IF st.error # NoError
        THEN [raised |-> st.error, quantity |-> None, avg_cost |-> None]
        ELSE [raised |-> NoError, quantity |-> st.qty, avg_cost |-> st.avg_cost]

(***************************************************************************)
(* Manual position replay                                                  *)
(***************************************************************************)
ManualStart == [held_quantity |-> Zero, avg_cost |-> Zero, invested_total |-> Zero,
                latest_value |-> None, latest_value_at |-> None, error |-> NoError]

ManualRaise(st, msg) == [st EXCEPT !.error = msg]

\* BUY branch
ManualBuy(st, quantity, price, fees) ==
    IF RLe(quantity, Zero) THEN ManualRaise(st, "Manual BUY quantity must be positive")
    ELSE IF RLt(price, Zero) THEN ManualRaise(st, "Manual BUY price cannot be negative")
    ELSE IF RLt(fees, Zero) THEN ManualRaise(st, "Fees cannot be negative")
    ELSE LET cost_total == RAdd(RAdd(st.invested_total, RMul(quantity, price)), fees)
             held_quantity == RAdd(st.held_quantity, quantity)
         IN  [st EXCEPT !.held_quantity = held_quantity,
                        !.invested_total = cost_total,
                        !.avg_cost = IF RGt(held_quantity, Zero)
                                     THEN RDiv(cost_total, held_quantity) ELSE Zero]

\* what an accepted SELL leaves in the loop variables
ManualSellApply(st, quantity_to_sell) ==
    LET invested_total == RSub(st.invested_total, RMul(st.avg_cost, quantity_to_sell))
        held_quantity == RSub(st.held_quantity, quantity_to_sell)
    IN  IF RLe(held_quantity, EpsR)
        THEN [st EXCEPT !.held_quantity = Zero, !.avg_cost = Zero, !.invested_total = Zero]
        ELSE [st EXCEPT !.held_quantity = held_quantity,
                        !.invested_total = invested_total,
                        !.avg_cost = RDiv(invested_total, held_quantity)]

\* a SELL branch that takes the proceeds, quantity x sale price, off the basis
ManualSell_AtSalePrice(st, quantity_to_sell, price, fees) ==
    IF RLe(quantity_to_sell, Zero) THEN ManualRaise(st, "Manual SELL quantity must be positive")
    ELSE IF RLt(price, Zero) THEN ManualRaise(st, "Manual SELL price cannot be negative")
    ELSE IF RLt(fees, Zero) THEN ManualRaise(st, "Fees cannot be negative")
    ELSE IF RGt(RSub(quantity_to_sell, st.held_quantity), EpsR)
         THEN ManualRaise(st, "Cannot sell more than currently held manual quantity")
    ELSE LET invested_total == RSub(st.invested_total, RMul(price, quantity_to_sell))
             held_quantity == RSub(st.held_quantity, quantity_to_sell)
         IN  IF RLe(held_quantity, EpsR)
             THEN [st EXCEPT !.held_quantity = Zero, !.avg_cost = Zero,
                             !.invested_total = Zero]
             ELSE [st EXCEPT !.held_quantity = held_quantity,
                             !.invested_total = invested_total,
                             !.avg_cost = RDiv(invested_total, held_quantity)]

\* SELL branch
ManualSell(st, quantity_to_sell, price, fees) ==
    IF RLe(quantity_to_sell, Zero) THEN ManualRaise(st, "Manual SELL quantity must be positive")
    ELSE IF RLt(price, Zero) THEN ManualRaise(st, "Manual SELL price cannot be negative")
    ELSE IF RLt(fees, Zero) THEN ManualRaise(st, "Fees cannot be negative")
    ELSE IF RGt(RSub(quantity_to_sell, st.held_quantity), EpsR)
         THEN ManualRaise(st, "Cannot sell more than currently held manual quantity")
    ELSE ManualSellApply(st, quantity_to_sell)

\* an override that replaces invested_total alone
ManualOverride_KeepsQuantity(st, invested_override) ==
    [st EXCEPT !.invested_total = invested_override]

\* the basis reset of a MANUAL_VALUE_UPDATE that carries invested_override
ManualOverride(st, invested_override) ==
    [st EXCEPT !.invested_total = invested_override,
               !.held_quantity = invested_override,
               !.avg_cost = IF RGt(invested_override, Zero) THEN One ELSE Zero]

\* MANUAL_VALUE_UPDATE branch
ManualValueUpdate(st, tx) ==
    LET value == _tx_manual_value(tx)
        invested_override == _tx_invested_override(tx)
        seen == [st EXCEPT !.latest_value = value, !.latest_value_at = <<_tx_timestamp(tx)>>]
    IN  IF RLt(value, Zero) THEN ManualRaise(st, "Manual value cannot be negative")
        ELSE IF invested_override = None THEN seen
        ELSE IF RLt(invested_override, Zero)
             THEN ManualRaise(seen, "Manual invested override cannot be negative")
        ELSE ManualOverride(seen, invested_override)

\* one iteration of the loop of compute_manual_position
ManualStep(st, tx) ==
    IF _tx_type(tx) = BUY
    THEN ManualBuy(st, _tx_quantity(tx), _tx_price(tx), _tx_fees(tx))
    ELSE IF _tx_type(tx) = SELL
         THEN ManualSell(st, _tx_quantity(tx), _tx_price(tx), _tx_fees(tx))
    ELSE IF _tx_type(tx) = MANUAL_VALUE_UPDATE THEN ManualValueUpdate(st, tx)
    ELSE ManualRaise(st, "Unsupported transaction type: " \o _tx_type(tx))

RECURSIVE ManualFold(_, _, _)
ManualFold(st, txs, i) ==
    IF i > Len(txs) \/ st.error # NoError THEN st
    ELSE ManualFold(ManualStep(st, txs[i]), txs, i + 1)

\* a result that reports a P&L whatever the invested total
ManualResult_AlwaysReportsPnl(st) ==
    LET current_value == IF st.latest_value # None THEN st.latest_value ELSE Zero
    IN  [raised |-> NoError,
         current_value |-> current_value,
         invested_total |-> st.invested_total,
         unrealized_pnl |-> RSub(current_value, st.invested_total),
         as_of |-> st.latest_value_at]

\* the ManualPosition built after the loop
ManualResult(st) ==
    LET current_value == IF st.latest_value # None THEN st.latest_value ELSE Zero
    IN  [raised |-> NoError,
         current_value |-> current_value,
         invested_total |-> st.invested_total,
         unrealized_pnl |-> IF RGt(st.invested_total, Zero)
                            THEN RSub(current_value, st.invested_total) ELSE None,
         as_of |-> st.latest_value_at]

\* ManualPosition(...), or the InvalidTransaction raised
compute_manual_position(transactions) ==
    LET st == ManualFold(ManualStart, sort_transactions(transactions), 1)
    IN  IF st.error # NoError
        THEN [raised |-> st.error, current_value |-> None, invested_total |-> None,
              unrealized_pnl |-> None, as_of |-> None]
        ELSE ManualResult(st)

\* a validation that relies on the replay alone
validate_asset_transactions_NoTypeCheck(asset_type, transactions) ==
    IF asset_type = MARKET THEN compute_market_position(transactions).raised
    ELSE compute_manual_position(transactions).raised

\* validate_asset_transactions: "" when the history is valid, else the message raised
validate_asset_transactions(asset_type, transactions) ==
    IF asset_type = MARKET
    THEN IF \E i \in 1..Len(transactions) : _tx_type(transactions[i]) = MANUAL_VALUE_UPDATE
         THEN "Market assets do not support MANUAL_VALUE_UPDATE transactions"
         ELSE compute_market_position(transactions).raised
    ELSE compute_manual_position(transactions).raised


(***************************************************************************)
(* State                                                                   *)
(***************************************************************************)
VARIABLES
    assets,     \* the assets table: id -> [asset_type]
    txs,        \* the transactions table: a set of rows
    outcome,    \* what the last ledger request did
    reqs,       \* concurrent requests between their read and their commit
    rp,         \* one replay loop in progress
    ls,         \* one call of a replay function on a whole list
    dash,       \* one dashboard request: its portfolio, then what it rendered
    px          \* the quote cache, the request's session and the last get_quote

vars == <<assets, txs, outcome, reqs, rp, ls, dash, px>>

(***************************************************************************)
(* The replay loops, one iteration per step                                *)
(***************************************************************************)
UNSUPPORTED == "DIVIDEND"

\* field values: the ends of each range and the values next to them
Amounts == {Zero, One, R(MaxQty - 1), R(MaxQty)}
Prices == {R(-1), Zero, One, R(MaxPrice)}
Fees == {R(i) : i \in (-1)..1}
Overrides == {None} \cup Prices

Tx(id, type, timestamp, quantity, price, fees, manual_value, invested_override) ==
    [id |-> id, type |-> type, timestamp |-> timestamp, quantity |-> quantity,
     price |-> price, fees |-> fees, manual_value |-> manual_value,
     invested_override |-> invested_override]

\* the transactions the n-th iteration may meet; like make_tx of the tests,
\* the n-th transaction has id n and timestamp n
ReplayTxs(kind, n) ==
    {Tx(n, t, Aware(n, 0), q, p, f, None, None) :
        t \in {BUY, SELL}, q \in Amounts,
        p \in Prices \cup (IF kind = MARKET THEN {PosInf} ELSE {}), f \in Fees}
    \cup {Tx(n, MANUAL_VALUE_UPDATE, Aware(n, 0), None, None, Zero, v, o) :
        v \in {None} \cup Prices, o \in Overrides}
    \cup {Tx(n, UNSUPPORTED, Aware(n, 0), None, None, Zero, None, None)}

NoTx == Tx(0, "NONE", Aware(0, 0), None, None, Zero, None, None)

ReplayStart(kind) ==
    [kind |-> kind, n |-> 0, tx |-> NoTx,
     prev |-> IF kind = MARKET THEN MarketStart ELSE ManualStart,
     st |-> IF kind = MARKET THEN MarketStart ELSE ManualStart,
     buyOnly |-> TRUE, sumQty |-> Zero, sumCost |-> Zero, emptied |-> FALSE,
     lastValue |-> None]

ReplayIdle == [kind |-> "idle", n |-> 0, tx |-> NoTx, prev |-> MarketStart,
               st |-> MarketStart, buyOnly |-> TRUE, sumQty |-> Zero,
               sumCost |-> Zero, emptied |-> FALSE, lastValue |-> None]

\* bookkeeping for the properties: the BUY totals of a BUY-only run, whether
\* a SELL has emptied the position, and the manual_value of the last
\* MANUAL_VALUE_UPDATE taken
ReplayNote(tx, st) ==
    LET only == rp.buyOnly /\ _tx_type(tx) = BUY /\ st.error = NoError
    IN  [buyOnly |-> only,
         sumQty |-> IF only THEN RAdd(rp.sumQty, _tx_quantity(tx)) ELSE Zero,
         sumCost |-> IF only
                     THEN RAdd(RAdd(rp.sumCost, RMul(_tx_quantity(tx), _tx_price(tx))),
                               _tx_fees(tx))
                     ELSE Zero,
         emptied |-> rp.emptied \/ (_tx_type(tx) = SELL /\ st.error = NoError
                                     /\ rp.kind = MARKET /\ st.qty = Zero),
         lastValue |-> IF /\ rp.kind = MANUAL /\ _tx_type(tx) = MANUAL_VALUE_UPDATE
                          /\ st.error = NoError
                       THEN _tx_manual_value(tx) ELSE rp.lastValue]

ReplayAdvance(tx, st) ==
    LET note == ReplayNote(tx, st)
    IN  rp' = [kind |-> rp.kind, n |-> rp.n + 1, tx |-> tx, prev |-> rp.st, st |-> st,
               buyOnly |-> note.buyOnly, sumQty |-> note.sumQty,
               sumCost |-> note.sumCost, emptied |-> note.emptied,
               lastValue |-> note.lastValue]

\* compute_market_position: the loop takes the next transaction of the sorted list
MarketReplayStep ==
    /\ rp.kind = MARKET
    /\ rp.st.error = NoError
    /\ rp.n < MaxReplayLen
    /\ \E tx \in ReplayTxs(MARKET, rp.n + 1) : ReplayAdvance(tx, MarketStep(rp.st, tx))
    /\ UNCHANGED <<assets, txs, outcome, reqs, ls, dash, px>>

\* compute_manual_position: the loop takes the next transaction of the sorted list
ManualReplayStep ==
    /\ rp.kind = MANUAL
    /\ rp.st.error = NoError
    /\ rp.n < MaxReplayLen
    /\ \E tx \in ReplayTxs(MANUAL, rp.n + 1) : ReplayAdvance(tx, ManualStep(rp.st, tx))
    /\ UNCHANGED <<assets, txs, outcome, reqs, ls, dash, px>>

LedgerIdle == /\ assets = <<>>
              /\ txs = {}
              /\ outcome = [op |-> "none", result |-> "none"]
              /\ reqs = {}

DashIdle == dash = [phase |-> "idle"]
PricingIdle == px = [phase |-> "idle"]

ListIdle == ls = [phase |-> "idle"]

InitReplay == /\ LedgerIdle
              /\ ListIdle
              /\ DashIdle
              /\ PricingIdle
              /\ rp \in {ReplayStart(MARKET), ReplayStart(MANUAL)}

NextReplay == MarketReplayStep \/ ManualReplayStep

SpecReplay == InitReplay /\ [][NextReplay]_vars

(***************************************************************************)
(* Properties of the replay loops (checked under SpecReplay)               *)
(***************************************************************************)
MarketStepOf(type) == rp.kind = MARKET /\ rp.n > 0 /\ rp.tx.type = type
ManualStepOf(type) == rp.kind = MANUAL /\ rp.n > 0 /\ rp.tx.type = type
Accepted == rp.st.error = NoError
\* a SELL whose own fields pass the field rules of the market replay
MarketSellFieldsValid == RGt(rp.tx.quantity, Zero) /\ RGt(rp.tx.price, Zero)
\* a SELL whose own fields pass the field rules of the manual replay
ManualSellFieldsValid(tx) ==
    RGt(tx.quantity, Zero) /\ RLe(Zero, tx.price) /\ RLe(Zero, tx.fees)

\* C4: in compute_market_position a SELL whose quantity exceeds the quantity
\* held at that point by more than the tolerance raises InvalidTransaction, and
\* a SELL (with positive quantity and price) whose quantity is within the
\* tolerance of the held quantity is accepted and leaves quantity 0.
C4_OversellRaisesExactSellEmpties ==
    MarketStepOf(SELL) =>
        /\ RGt(RSub(rp.tx.quantity, rp.prev.qty), EpsR) => ~Accepted
        /\ ( /\ MarketSellFieldsValid
             /\ RLe(RSub(rp.tx.quantity, rp.prev.qty), EpsR)
             /\ RLe(RSub(rp.prev.qty, rp.tx.quantity), EpsR) )
           => (Accepted /\ rp.st.qty = Zero)

\* C4 witness: a SELL of one tick more than a positive holding was accepted
C4_Witness ==
    /\ MarketStepOf(SELL)
    /\ RGt(rp.prev.qty, Zero)
    /\ rp.tx.quantity = RAdd(rp.prev.qty, EpsR)
    /\ Accepted
    /\ rp.st.qty = Zero

\* C5: for a BUY-only sequence with positive quantities, finite prices
\* (negative ones included) and non-negative fees, compute_market_position
\* accepts every BUY and returns quantity = the sum of the BUY quantities and
\* avg_cost = (sum of quantity x price + sum of fees) / total quantity.
C5_BuyOnlyTotals ==
    /\ ( /\ MarketStepOf(BUY)
         /\ RGt(rp.tx.quantity, Zero) /\ isfinite(rp.tx.price) /\ RLe(Zero, rp.tx.fees) )
       => Accepted
    /\ (rp.kind = MARKET /\ rp.n > 0 /\ rp.buyOnly)
       => /\ rp.st.qty = rp.sumQty
          /\ rp.st.avg_cost = RDiv(rp.sumCost, rp.sumQty)

\* C5 witness: a third BUY in a row, at a negative price and with a fee
C5_Witness ==
    /\ rp.kind = MARKET /\ rp.buyOnly /\ rp.n = 3
    /\ rp.tx.price = R(-1) /\ rp.tx.fees = One
    /\ rp.prev.avg_cost # Zero

\* C6: a SELL that brings the held quantity to zero within the tolerance
\* resets quantity and avg_cost to exactly 0 at that step, and a BUY that
\* follows starts a new average from its own cost alone.
C6_EmptyingSellResets ==
    /\ ( /\ MarketStepOf(SELL) /\ Accepted
         /\ RLe(RSub(rp.prev.qty, rp.tx.quantity), EpsR) )
       => (rp.st.qty = Zero /\ rp.st.avg_cost = Zero)
    /\ ( /\ MarketStepOf(BUY) /\ Accepted /\ rp.emptied /\ rp.prev.qty = Zero )
       => /\ rp.st.qty = rp.tx.quantity
          /\ rp.st.avg_cost = RDiv(RAdd(RMul(rp.tx.quantity, rp.tx.price), rp.tx.fees),
                                   rp.tx.quantity)

\* C6 witness: a SELL left one tick of a costly position and reset it
C6_Witness ==
    /\ MarketStepOf(SELL) /\ Accepted
    /\ RSub(rp.prev.qty, rp.tx.quantity) = EpsR
    /\ rp.prev.avg_cost # Zero
    /\ rp.st.qty = Zero

\* C9 as stated: an accepted manual SELL of quantity q reduces invested_total
\* by exactly q x the current average cost (to 0 when the whole quantity is
\* sold), and a SELL of more than the held synthetic quantity is rejected.
C9_AsStated ==
    ManualStepOf(SELL) =>
        /\ Accepted =>
             rp.st.invested_total =
                 IF rp.tx.quantity = rp.prev.held_quantity THEN Zero
                 ELSE RSub(rp.prev.invested_total, RMul(rp.tx.quantity, rp.prev.avg_cost))
        /\ RGt(rp.tx.quantity, rp.prev.held_quantity) => ~Accepted

\* C9 (amended): an accepted manual SELL of quantity q reduces invested_total
\* by exactly q x the current average cost when more than the tolerance stays
\* held, and resets it to 0 otherwise; the loop state it leaves is the same for
\* every sale price >= 0; a SELL of more than the held synthetic quantity plus
\* the tolerance is rejected.
C9_SellReducesBasisAtAvgCost ==
    ManualStepOf(SELL) =>
        /\ Accepted =>
             /\ rp.st.invested_total =
                    IF RLe(RSub(rp.prev.held_quantity, rp.tx.quantity), EpsR) THEN Zero
                    ELSE RSub(rp.prev.invested_total,
                              RMul(rp.tx.quantity, rp.prev.avg_cost))
             /\ \A p \in Prices :
                    RLe(Zero, p) =>
                        /\ ManualStep(rp.prev, [rp.tx EXCEPT !.price = p]) = rp.st
                        /\ ManualResult(ManualStep(rp.prev, [rp.tx EXCEPT !.price = p]))
                               = ManualResult(rp.st)
        /\ RGt(RSub(rp.tx.quantity, rp.prev.held_quantity), EpsR) => ~Accepted

\* C9 witness: a partial SELL at a price above the average cost lowered the basis
C9_Witness ==
    /\ ManualStepOf(SELL) /\ Accepted
    /\ RGt(rp.st.held_quantity, Zero)
    /\ RGt(rp.tx.price, rp.prev.avg_cost)
    /\ RLt(rp.st.invested_total, rp.prev.invested_total)

\* the SELLs the next iteration may meet
NextSells == {tx \in ReplayTxs(MANUAL, rp.n + 1) : tx.type = SELL /\ ManualSellFieldsValid(tx)}

OverrideStep == ManualStepOf(MANUAL_VALUE_UPDATE) /\ rp.tx.invested_override # None

\* an override v >= 0 replaces the basis: invested_total = held quantity = v, avg_cost 1 (0 when v = 0)
OverrideResets ==
    (OverrideStep /\ RLe(Zero, rp.tx.invested_override) /\ RLe(Zero, _tx_manual_value(rp.tx)))
    => /\ Accepted
       /\ rp.st.invested_total = rp.tx.invested_override
       /\ rp.st.held_quantity = rp.tx.invested_override
       /\ rp.st.avg_cost = IF rp.tx.invested_override = Zero THEN Zero ELSE One

\* C10 as stated: after an override v, a SELL of up to v is accepted and a
\* SELL of more than v is rejected.
C10_AsStated ==
    /\ OverrideResets
    /\ (OverrideStep /\ Accepted) =>
          \A tx \in NextSells :
              (ManualStep(rp.st, tx).error = NoError)
                  <=> RLe(tx.quantity, rp.tx.invested_override)
    /\ (OverrideStep /\ RLt(rp.tx.invested_override, Zero)) => ~Accepted

\* C10 (amended): a MANUAL_VALUE_UPDATE with invested_override = v >= 0 sets
\* invested_total and the synthetic held quantity to v with average cost 1
\* (0 when v = 0), whatever came before; afterwards a SELL of up to v plus the
\* tolerance is accepted and a SELL of more than that is rejected; a negative
\* override is rejected.
C10_OverrideResetsBasis ==
    /\ OverrideResets
    /\ (OverrideStep /\ Accepted) =>
          \A tx \in NextSells :
              (ManualStep(rp.st, tx).error = NoError)
                  <=> RLe(RSub(tx.quantity, rp.tx.invested_override), EpsR)
    /\ (OverrideStep /\ RLt(rp.tx.invested_override, Zero)) => ~Accepted

\* C10 witness: an override below the quantity bought before it
C10_Witness ==
    /\ OverrideStep /\ Accepted
    /\ RGt(rp.tx.invested_override, Zero)
    /\ RGt(rp.prev.held_quantity, RAdd(rp.tx.invested_override, EpsR))
    /\ rp.prev.avg_cost # One

\* C11: compute_manual_position returns current_value = the manual_value of
\* the last MANUAL_VALUE_UPDATE of the replay (0 if there is none), and
\* unrealized_pnl = current_value - invested_total exactly when
\* invested_total > 0; with invested_total 0 it reports None, also when a
\* value was entered.
C11_LatestValueAndGatedPnl ==
    (rp.kind = MANUAL /\ Accepted) =>
        LET position == ManualResult(rp.st)
        IN  /\ position.current_value = (IF rp.lastValue = None THEN Zero ELSE rp.lastValue)
            /\ RLe(Zero, position.invested_total)
            /\ IF RGt(position.invested_total, Zero)
               THEN position.unrealized_pnl
                        = RSub(position.current_value, position.invested_total)
               ELSE position.unrealized_pnl = None

\* C11 witness: a positive value was entered after an earlier one, with
\* nothing invested
C11_Witness ==
    /\ ManualStepOf(MANUAL_VALUE_UPDATE) /\ Accepted /\ rp.n >= 2
    /\ rp.prev.latest_value # None
    /\ rp.prev.latest_value # rp.tx.manual_value
    /\ RGt(_tx_manual_value(rp.tx), Zero)
    /\ rp.st.invested_total = Zero
    /\ ManualResult(rp.st).unrealized_pnl = None

(***************************************************************************)
(* The replay functions called on whole lists, in any input order          *)
(***************************************************************************)
\* naive readings, and aware readings one hour ahead of UTC
Stamps == {Naive(w) : w \in 1..MaxStamp} \cup {Aware(w, 1) : w \in 2..MaxStamp}

ListTxs(id) ==
    {Tx(id, t, ts, q, One, Zero, None, None) :
        t \in {BUY, SELL}, ts \in Stamps, q \in {One, R(MaxQty)}}
    \cup {Tx(id, MANUAL_VALUE_UPDATE, ts, None, None, Zero, One, None) : ts \in Stamps}

Injective(f) == \A i, j \in DOMAIN f : f[i] = f[j] => i = j

\* lists of transactions with distinct ids, in every input order
ListInputs ==
    UNION {{s \in [1..n -> UNION {ListTxs(id) : id \in 1..n}] :
               Injective([i \in 1..n |-> s[i].id])} : n \in 0..MaxListLen}

CallMarket ==
    /\ ls.phase = "input"
    /\ ls' = [phase |-> "returned", fn |-> "compute_market_position", txs |-> ls.txs,
              result |-> compute_market_position(ls.txs)]
    /\ UNCHANGED <<assets, txs, outcome, reqs, rp, dash, px>>

CallManual ==
    /\ ls.phase = "input"
    /\ ls' = [phase |-> "returned", fn |-> "compute_manual_position", txs |-> ls.txs,
              result |-> compute_manual_position(ls.txs)]
    /\ UNCHANGED <<assets, txs, outcome, reqs, rp, dash, px>>

CallValidate ==
    /\ ls.phase = "input"
    /\ \E t \in AssetType :
          ls' = [phase |-> "returned", fn |-> "validate_asset_transactions",
                 asset_type |-> t, txs |-> ls.txs,
                 result |-> [raised |-> validate_asset_transactions(t, ls.txs)]]
    /\ UNCHANGED <<assets, txs, outcome, reqs, rp, dash, px>>

InitLists == /\ LedgerIdle
             /\ rp = ReplayIdle
             /\ DashIdle
             /\ PricingIdle
             /\ ls \in {[phase |-> "input", txs |-> s] : s \in ListInputs}

NextLists == CallMarket \/ CallManual \/ CallValidate

SpecLists == InitLists /\ [][NextLists]_vars

Returned(fn) == ls.phase = "returned" /\ ls.fn = fn
HasManualValueUpdate(s) == \E i \in 1..Len(s) : s[i].type = MANUAL_VALUE_UPDATE
WithoutManualValueUpdate(s) == SelectSeq(s, LAMBDA tx : tx.type # MANUAL_VALUE_UPDATE)

\* C7 as stated: compute_market_position raises InvalidTransaction for every
\* input list that contains a MANUAL_VALUE_UPDATE.
C7_AsStated ==
    (Returned("compute_market_position") /\ HasManualValueUpdate(ls.txs))
    => ls.result.raised # NoError

\* C7 (amended): validate_asset_transactions raises InvalidTransaction for every
\* list of a MARKET asset that contains a MANUAL_VALUE_UPDATE, while
\* compute_market_position skips such transactions: it gives what it gives for
\* the list without them.
C7_ValidateRejectsReplaySkips ==
    /\ ( /\ Returned("validate_asset_transactions") /\ ls.asset_type = MARKET
         /\ HasManualValueUpdate(ls.txs) )
       => ls.result.raised # NoError
    /\ Returned("compute_market_position")
       => ls.result = compute_market_position(WithoutManualValueUpdate(ls.txs))

\* C7 witness: validation rejected a MARKET list that the replay alone accepts
C7_Witness ==
    /\ Returned("validate_asset_transactions") /\ ls.asset_type = MARKET
    /\ HasManualValueUpdate(ls.txs) /\ Len(ls.txs) = 2
    /\ ls.result.raised # NoError
    /\ compute_market_position(ls.txs).raised = NoError
    /\ compute_market_position(ls.txs).quantity # Zero

\* the instant of a timestamp, a naive one being read as UTC
Instant(ts) == IF Len(ts.tz) = 0 THEN ts.wall ELSE ts.wall - ts.tz[1]

InputOrders(s) ==
    {[i \in 1..Len(s) |-> s[f[i]]] : f \in {g \in [1..Len(s) -> 1..Len(s)] : Injective(g)}}

\* the one order of s that ascends by (instant, id)
CanonicalOrder(s) ==
    CHOOSE r \in InputOrders(s) :
        \A i, j \in 1..Len(r) :
            i < j => \/ Instant(r[i].timestamp) < Instant(r[j].timestamp)
                     \/ /\ Instant(r[i].timestamp) = Instant(r[j].timestamp)
                        /\ r[i].id < r[j].id

\* C8: for transactions with distinct ids, compute_market_position and
\* compute_manual_position give, for every permutation of the input, the
\* outcome of replaying in (timestamp ascending, id ascending) order with
\* naive timestamps read as UTC.
C8_ReplayIndependentOfInputOrder ==
    /\ Returned("compute_market_position") =>
          /\ \A p \in InputOrders(ls.txs) : compute_market_position(p) = ls.result
          /\ LET st == MarketFold(MarketStart, CanonicalOrder(ls.txs), 1)
             IN  /\ ls.result.raised = st.error
                 /\ st.error = NoError
                    => (ls.result.quantity = st.qty /\ ls.result.avg_cost = st.avg_cost)
    /\ Returned("compute_manual_position") =>
          /\ \A p \in InputOrders(ls.txs) : compute_manual_position(p) = ls.result
          /\ LET st == ManualFold(ManualStart, CanonicalOrder(ls.txs), 1)
             IN  /\ ls.result.raised = st.error
                 /\ st.error = NoError => ls.result = ManualResult(st)

\* C8 witness: a BUY and a SELL at one instant, one stamped naive and one
\* aware, given with the SELL first, and accepted
C8_Witness ==
    /\ Returned("compute_market_position") /\ Len(ls.txs) = 2
    /\ ls.txs[1].type = SELL /\ ls.txs[2].type = BUY
    /\ ls.txs[1].timestamp.tz # ls.txs[2].timestamp.tz
    /\ Instant(ls.txs[1].timestamp) = Instant(ls.txs[2].timestamp)
    /\ ls.result.raised = NoError

(***************************************************************************)
(* Forms and their parsing                                                 *)
(***************************************************************************)
\* a form field holds "" (Empty), text that is no number (Bad), or a number
Empty == <<>>
Bad == <<"abc">>
IsNumber(value) == Len(value) = 2

\* _parse_float: the number, or the ValueError it raises
_parse_float(value, allow_zero, allow_negative) ==
    IF ~IsNumber(value) THEN [error |-> "must be a number", number |-> None]
    ELSE IF allow_negative
         THEN IF ~allow_zero /\ value = Zero
              THEN [error |-> "must be non-zero", number |-> None]
              ELSE [error |-> NoError, number |-> value]
    ELSE IF ~allow_zero /\ RLe(value, Zero)
         THEN [error |-> "must be greater than zero", number |-> None]
    ELSE IF allow_zero /\ RLt(value, Zero)
         THEN [error |-> "cannot be negative", number |-> None]
    ELSE [error |-> NoError, number |-> value]

\* a timestamp field that datetime.fromisoformat cannot read
BadStamp == [wall |-> 0, tz |-> <<0, 0>>]
IsStamp(value) == Len(value.tz) <= 1

\* _parse_datetime_local: the instant as an aware UTC datetime
_parse_datetime_local(value) ==
    IF value.tz = <<>> THEN Aware(value.wall, 0) ELSE Aware(value.wall - value.tz[1], 0)

\* form.get("fees", "0") or "0"
FeesField(form) == IF form.fees = Empty THEN Zero ELSE form.fees

\* the first error among parse results, in the order the handler parses
FirstError(results) ==
    IF \A i \in 1..Len(results) : results[i].error = NoError THEN NoError
    ELSE results[CHOOSE i \in 1..Len(results) :
                    /\ results[i].error # NoError
                    /\ \A j \in 1..(i - 1) : results[j].error = NoError].error

\* the try block of add_transaction / edit_transaction up to the candidate:
\* the parsed fields of the form, or the ValueError raised
ParseTransactionForm(form) ==
    LET fees == _parse_float(FeesField(form), TRUE, FALSE)
        quantity == _parse_float(form.quantity, FALSE, FALSE)
        price == IF form.type = BUY THEN _parse_float(form.price, TRUE, TRUE)
                 ELSE _parse_float(form.price, FALSE, FALSE)
        manual_value == _parse_float(form.manual_value, TRUE, FALSE)
        invested_override ==
            IF form.manual_invested_override = Empty
            THEN [error |-> NoError, number |-> None]
            ELSE _parse_float(form.manual_invested_override, TRUE, FALSE)
        stamp == [error |-> IF IsStamp(form.timestamp) THEN NoError
                            ELSE "Invalid isoformat string"]
        trade == form.type \in {BUY, SELL}
        error == IF trade THEN FirstError(<<stamp, fees, quantity, price>>)
                 ELSE FirstError(<<stamp, fees, manual_value, invested_override>>)
    IN  [error |-> error,
         type |-> form.type,
         timestamp |-> IF error = NoError THEN _parse_datetime_local(form.timestamp)
                       ELSE BadStamp,
         quantity |-> IF trade THEN quantity.number ELSE None,
         price |-> IF trade THEN price.number ELSE None,
         fees |-> fees.number,
         manual_value |-> IF trade THEN None ELSE manual_value.number,
         invested_override |-> IF trade THEN None ELSE invested_override.number]

_allowed_tx_types(asset_type) ==
    IF asset_type = MARKET THEN {BUY, SELL} ELSE {BUY, SELL, MANUAL_VALUE_UPDATE}

(***************************************************************************)
(* The ledger                                                              *)
(***************************************************************************)
\* the id SimpleNamespace gives the candidate of add_transaction
CandidateId == 1000000000

Row(id, asset_id, f) ==
    [id |-> id, asset_id |-> asset_id, type |-> f.type, timestamp |-> f.timestamp,
     quantity |-> f.quantity, price |-> f.price, fees |-> f.fees,
     manual_value |-> f.manual_value, invested_override |-> f.invested_override]

Max(S) == CHOOSE x \in S : \A y \in S : y <= x

\* the primary key the table gives the next inserted row
NextTxId(table) == IF table = {} THEN 1 ELSE Max({r.id : r \in table}) + 1
NextAssetId == IF DOMAIN assets = {} THEN 1 ELSE Max(DOMAIN assets) + 1

RowBefore(a, b) ==
    \/ _tx_timestamp(a) < _tx_timestamp(b)
    \/ (_tx_timestamp(a) = _tx_timestamp(b) /\ a.id < b.id)

\* select(Transaction).where(...).order_by(timestamp.asc(), id.asc())
RECURSIVE OrderBy(_)
OrderBy(rows) ==
    IF rows = {} THEN <<>>
    ELSE LET first == CHOOSE r \in rows : \A o \in rows \ {r} : RowBefore(r, o)
         IN  <<first>> \o OrderBy(rows \ {first})

AssetRows(table, asset_id) == {r \in table : r.asset_id = asset_id}
AssetHistory(table, asset_id) == OrderBy(AssetRows(table, asset_id))

\* the ways a request ends: "accepted", or rejected as "malformed" (an input
\* the handler cannot use) or as "invalid" (the replay of the history raised)
ReplayErrors ==
    {"BUY quantity must be positive", "BUY price must be a finite number",
     "Fees cannot be negative", "SELL quantity must be positive",
     "SELL price must be positive", "Cannot sell more than currently held quantity",
     "Unsupported transaction type: " \o UNSUPPORTED, "Manual BUY quantity must be positive",
     "Manual BUY price cannot be negative", "Manual SELL quantity must be positive",
     "Manual SELL price cannot be negative",
     "Cannot sell more than currently held manual quantity",
     "Manual value cannot be negative", "Manual invested override cannot be negative",
     "Market assets do not support MANUAL_VALUE_UPDATE transactions"}
Done(op, result) == outcome' = [op |-> op, result |-> result]
Rejected(op, message) ==
    /\ Done(op, IF message \in ReplayErrors THEN "invalid" ELSE "malformed")
    /\ UNCHANGED <<assets, txs>>

(***************************************************************************)
(* Requests, one handler per action                                        *)
(***************************************************************************)
Symbols == {"AAA"}

AssetForm(asset_type, q, p, f, v, i) ==
    [asset_type |-> asset_type, initial_quantity |-> q, initial_buy_price |-> p,
     initial_fees |-> f, initial_value |-> v, initial_invested |-> i]

\* the forms a client may post to create_asset
MarketAssetForms ==
    {AssetForm(MARKET, q, p, Empty, Empty, Empty) :
        q \in {Empty, R(MaxQty - 1)}, p \in {Empty, One, PosInf}}
    \cup {AssetForm(MARKET, Zero, One, Empty, Empty, Empty),
          AssetForm(MARKET, One, One, R(-1), Empty, Empty)}
ManualAssetForms ==
    {AssetForm(MANUAL, Empty, Empty, Empty, v, i) :
        v \in {Empty, One}, i \in {Empty, Zero, R(MaxQty - 1)}}

TxForm(type, timestamp, q, p, f, v, o) ==
    [type |-> type, timestamp |-> timestamp, quantity |-> q, price |-> p, fees |-> f,
     manual_value |-> v, manual_invested_override |-> o]

\* the forms a client may post to add_transaction / edit_transaction
LedgerStamps == {Naive(1), Aware(MaxStamp + 1, 1)}
TradeForms(asset_type) ==
    {TxForm(t, ts, q, One, Empty, Empty, Empty) :
        t \in {BUY, SELL}, ts \in LedgerStamps, q \in {One, R(MaxQty - 1)}}
    \cup {TxForm(BUY, BadStamp, One, One, Empty, Empty, Empty),
          TxForm(BUY, Naive(1), Bad, One, Empty, Empty, Empty),
          TxForm(SELL, Naive(1), One, Zero, Empty, Empty, Empty),
          TxForm(SELL, Naive(1), One, One, R(-1), Empty, Empty),
          TxForm(BUY, Naive(1), One, R(-1), Empty, Empty, Empty)}
    \cup (IF asset_type = MARKET
          THEN {TxForm(BUY, Naive(1), One, PosInf, Empty, Empty, Empty)} ELSE {})
ValueForms ==
    {TxForm(MANUAL_VALUE_UPDATE, ts, Empty, Empty, Empty, One, o) :
        ts \in LedgerStamps, o \in {Empty, One}}
    \cup {TxForm(MANUAL_VALUE_UPDATE, Naive(1), Empty, Empty, Empty, R(-1), Empty)}
BogusForm == TxForm("BOGUS", Naive(1), Empty, Empty, Empty, Empty, Empty)
TransactionForms(asset_type) == TradeForms(asset_type) \cup ValueForms \cup {BogusForm}

\* the seed transactions create_asset adds for a MARKET asset, or the ValueError
MarketSeeds(form, created_at) ==
    LET qty == IF form.initial_quantity = Empty THEN [error |-> NoError, number |-> Zero]
               ELSE _parse_float(form.initial_quantity, FALSE, FALSE)
        fees == _parse_float(IF form.initial_fees = Empty THEN Zero ELSE form.initial_fees,
                             TRUE, FALSE)
        price == _parse_float(form.initial_buy_price, TRUE, TRUE)
    IN  IF qty.error # NoError THEN [error |-> qty.error, seeds |-> <<>>]
        ELSE IF fees.error # NoError THEN [error |-> fees.error, seeds |-> <<>>]
        ELSE IF ~RGt(qty.number, Zero) THEN [error |-> NoError, seeds |-> <<>>]
        ELSE IF form.initial_buy_price = Empty
             THEN [error |-> "Initial buy price is required when shares are provided",
                   seeds |-> <<>>]
        ELSE IF price.error # NoError THEN [error |-> price.error, seeds |-> <<>>]
        ELSE [error |-> NoError,
              seeds |-> <<[type |-> BUY, timestamp |-> created_at, quantity |-> qty.number,
                           price |-> price.number, fees |-> fees.number,
                           manual_value |-> None, invested_override |-> None]>>]

\* the seed transactions create_asset adds for a MANUAL asset, or the ValueError
ManualSeeds(form, created_at) ==
    LET value == _parse_float(form.initial_value, TRUE, FALSE)
        invested == _parse_float(form.initial_invested, FALSE, FALSE)
        update == [type |-> MANUAL_VALUE_UPDATE, timestamp |-> created_at, quantity |-> None,
                   price |-> None, fees |-> Zero, manual_value |-> value.number,
                   invested_override |-> None]
    IN  IF form.initial_value = Empty
        THEN [error |-> "Initial manual value is required for manual assets", seeds |-> <<>>]
        ELSE IF value.error # NoError THEN [error |-> value.error, seeds |-> <<>>]
        ELSE IF form.initial_invested = Empty THEN [error |-> NoError, seeds |-> <<update>>]
        ELSE IF invested.error # NoError THEN [error |-> invested.error, seeds |-> <<>>]
        ELSE [error |-> NoError,
              seeds |-> <<update,
                          [type |-> BUY, timestamp |-> created_at,
                           quantity |-> invested.number, price |-> One, fees |-> Zero,
                           manual_value |-> None, invested_override |-> None]>>]

\* POST /assets
create_asset(symbol, form, now) ==
    LET created_at == Aware(now, 0)
        parsed == IF form.asset_type = MARKET THEN MarketSeeds(form, created_at)
                  ELSE ManualSeeds(form, created_at)
        asset_id == NextAssetId
        first_id == NextTxId(txs)
    IN  /\ first_id + Len(parsed.seeds) - 1 <= MaxTxId
        /\ IF \E a \in DOMAIN assets : assets[a].symbol = symbol /\ ~assets[a].is_archived
           THEN Rejected("create_asset", "Active asset with symbol already exists")
           ELSE IF parsed.error # NoError
           THEN Rejected("create_asset", parsed.error)
           ELSE /\ assets' = [a \in DOMAIN assets \cup {asset_id} |->
                                IF a = asset_id
                                THEN [symbol |-> symbol, asset_type |-> form.asset_type,
                                      name |-> "Asset", group_id |-> 1,
                                      is_archived |-> FALSE]
                                ELSE assets[a]]
                /\ txs' = txs \cup {Row(first_id + i - 1, asset_id, parsed.seeds[i]) :
                                      i \in 1..Len(parsed.seeds)}
                /\ Done("create_asset", "accepted")
        /\ UNCHANGED <<reqs, rp, ls, dash, px>>

\* what add_transaction decides after reading `existing`: the error it
\* flashes, or the fields of the row it will insert
AddDecision(asset_id, form, existing) ==
    LET asset_type == assets[asset_id].asset_type
        parsed == ParseTransactionForm(form)
        candidate == Row(CandidateId, asset_id, parsed)
    IN  IF form.type \notin TransactionType
        THEN [error |-> "Invalid transaction type", fields |-> parsed]
        ELSE IF form.type \notin _allowed_tx_types(asset_type)
        THEN [error |-> "Transaction type not allowed for this asset type", fields |-> parsed]
        ELSE IF parsed.error # NoError THEN [error |-> parsed.error, fields |-> parsed]
        ELSE [error |-> validate_asset_transactions(asset_type, Append(existing, candidate)),
              fields |-> parsed]

\* POST /assets/{asset_id}/transactions
add_transaction(asset_id, form) ==
    /\ NextTxId(txs) <= MaxTxId
    /\ IF asset_id \notin DOMAIN assets
       THEN Rejected("add_transaction", "Asset not found")
       ELSE LET decision == AddDecision(asset_id, form, AssetHistory(txs, asset_id))
            IN  IF decision.error # NoError
                THEN Rejected("add_transaction", decision.error)
                ELSE /\ txs' = txs \cup {Row(NextTxId(txs), asset_id, decision.fields)}
                     /\ Done("add_transaction", "accepted")
                     /\ UNCHANGED assets
    /\ UNCHANGED <<reqs, rp, ls, dash, px>>

\* `merged` of edit_transaction: the candidate in the place of the edited row
Merged(existing, candidate) ==
    [i \in 1..Len(existing) |-> IF existing[i].id = candidate.id THEN candidate
                                ELSE existing[i]]

\* what edit_transaction decides after reading `existing`
EditDecision(asset_id, tx_id, form, existing) ==
    LET asset_type == assets[asset_id].asset_type
        parsed == ParseTransactionForm(form)
        candidate == Row(tx_id, asset_id, parsed)
    IN  IF form.type \notin TransactionType
        THEN [error |-> "is not a valid TransactionType", fields |-> parsed]
        ELSE IF form.type \notin _allowed_tx_types(asset_type)
        THEN [error |-> "Transaction type not allowed for this asset type", fields |-> parsed]
        ELSE IF parsed.error # NoError THEN [error |-> parsed.error, fields |-> parsed]
        ELSE [error |-> validate_asset_transactions(asset_type, Merged(existing, candidate)),
              fields |-> parsed]

\* the transaction the handler loads: Transaction.id == tx_id, asset_id == asset_id
Loaded(table, asset_id, tx_id) == {r \in table : r.id = tx_id /\ r.asset_id = asset_id}

\* the assignments of edit_transaction to the loaded row
Updated(table, asset_id, tx_id, fields) ==
    (table \ Loaded(table, asset_id, tx_id)) \cup {Row(tx_id, asset_id, fields)}

\* an edit that assigns the fields to the row before it validates
edit_transaction_AssignsFirst(asset_id, tx_id, form) ==
    /\ IF asset_id \notin DOMAIN assets \/ Loaded(txs, asset_id, tx_id) = {}
       THEN Rejected("edit_transaction", "Transaction not found")
       ELSE LET decision == EditDecision(asset_id, tx_id, form, AssetHistory(txs, asset_id))
            IN  IF decision.error # NoError /\ decision.error \notin ReplayErrors
                THEN Rejected("edit_transaction", decision.error)
                ELSE /\ txs' = Updated(txs, asset_id, tx_id, decision.fields)
                     /\ Done("edit_transaction",
                             IF decision.error = NoError THEN "accepted" ELSE "invalid")
                     /\ UNCHANGED assets
    /\ UNCHANGED <<reqs, rp, ls, dash, px>>

\* POST /assets/{asset_id}/transactions/{tx_id}/edit
edit_transaction(asset_id, tx_id, form) ==
    /\ IF asset_id \notin DOMAIN assets \/ Loaded(txs, asset_id, tx_id) = {}
       THEN Rejected("edit_transaction", "Transaction not found")
       ELSE LET decision == EditDecision(asset_id, tx_id, form, AssetHistory(txs, asset_id))
            IN  IF decision.error # NoError
                THEN Rejected("edit_transaction", decision.error)
                ELSE /\ txs' = Updated(txs, asset_id, tx_id, decision.fields)
                     /\ Done("edit_transaction", "accepted")
                     /\ UNCHANGED assets
    /\ UNCHANGED <<reqs, rp, ls, dash, px>>

\* `remaining` of delete_transaction
Remaining(existing, tx_id) == SelectSeq(existing, LAMBDA row : row.id # tx_id)

\* what delete_transaction decides after reading `existing`
DeleteDecision(asset_id, tx_id, existing) ==
    validate_asset_transactions(assets[asset_id].asset_type, Remaining(existing, tx_id))

\* POST /assets/{asset_id}/transactions/{tx_id}/delete
delete_transaction(asset_id, tx_id) ==
    /\ IF asset_id \notin DOMAIN assets \/ Loaded(txs, asset_id, tx_id) = {}
       THEN Rejected("delete_transaction", "Transaction not found")
       ELSE LET error == DeleteDecision(asset_id, tx_id, AssetHistory(txs, asset_id))
            IN  IF error # NoError
                THEN Rejected("delete_transaction", error)
                ELSE /\ txs' = txs \ Loaded(txs, asset_id, tx_id)
                     /\ Done("delete_transaction", "accepted")
                     /\ UNCHANGED assets
    /\ UNCHANGED <<reqs, rp, ls, dash, px>>

AssetIds == 1..Cardinality(Symbols)
TxIds == 1..MaxTxId
FormsFor(asset_id) ==
    IF asset_id \in DOMAIN assets THEN TransactionForms(assets[asset_id].asset_type)
    ELSE {BogusForm}

CreateAsset ==
    \E symbol \in Symbols, form \in MarketAssetForms \cup ManualAssetForms, now \in 1..MaxStamp :
        create_asset(symbol, form, now)
AddTransaction ==
    \E asset_id \in AssetIds : \E form \in FormsFor(asset_id) : add_transaction(asset_id, form)
EditTransaction ==
    \E asset_id \in AssetIds, tx_id \in TxIds :
        \E form \in FormsFor(asset_id) : edit_transaction(asset_id, tx_id, form)
DeleteTransaction ==
    \E asset_id \in AssetIds, tx_id \in TxIds : delete_transaction(asset_id, tx_id)

Init == /\ LedgerIdle
        /\ rp = ReplayIdle
        /\ ListIdle
        /\ DashIdle
        /\ PricingIdle

Next == CreateAsset \/ AddTransaction \/ EditTransaction \/ DeleteTransaction

Spec == Init /\ [][Next]_vars

(***************************************************************************)
(* Properties of the ledger (checked under Spec)                           *)
(***************************************************************************)
HistoryValid(table, asset_id) ==
    validate_asset_transactions(assets[asset_id].asset_type, AssetHistory(table, asset_id))
        = NoError

\* C1: after any sequence of create-asset, add-, edit- and delete-transaction
\* requests, the persisted history of every asset, in (timestamp, id) order,
\* passes validate_asset_transactions.
C1_PersistedHistoriesReplay == \A asset_id \in DOMAIN assets : HistoryValid(txs, asset_id)

\* C2: a rejected add-, edit- or delete-transaction request leaves the set of
\* persisted transactions and every field of each of them unchanged.
C2_RejectedWriteLeavesLedger ==
    [][(/\ outcome'.result \in {"malformed", "invalid"}
        /\ outcome'.op \in {"add_transaction", "edit_transaction", "delete_transaction"})
       => txs' = txs]_vars

\* C2 witness: an edit was rejected by the replay of the merged history
C2_Witness ==
    /\ outcome.op = "edit_transaction" /\ outcome.result = "invalid"
    /\ Cardinality(txs) >= 2

(***************************************************************************)
(* Concurrent ledger requests.  A handler reads `existing` with a SELECT,  *)
(* validates in memory and later commits on its own session; nothing in    *)
(* the handlers or in the session setup (get_db) holds a lock across the   *)
(* two, so with more than one worker the reads of two requests can both    *)
(* come before either commit.                                              *)
(***************************************************************************)
\* each of the MaxInFlight requests is made once
FreeSlots == (1..MaxInFlight) \ {r.slot : r \in reqs}
PendingAdds == Cardinality({r \in reqs : r.op = "add_transaction"})
Finished(slot) == [slot |-> slot, op |-> "finished"]
AllFinished == reqs = {Finished(slot) : slot \in 1..MaxInFlight}

Pending(slot, op, asset_id, tx_id, fields) ==
    [slot |-> slot, op |-> op, asset_id |-> asset_id, tx_id |-> tx_id, fields |-> fields]

\* add_transaction up to validate_asset_transactions
BeginAdd ==
    \E slot \in FreeSlots, asset_id \in DOMAIN assets :
      \E form \in FormsFor(asset_id) :
        LET decision == AddDecision(asset_id, form, AssetHistory(txs, asset_id))
        IN  /\ NextTxId(txs) + PendingAdds <= MaxTxId
            /\ IF decision.error # NoError
               THEN /\ Rejected("add_transaction", decision.error)
                    /\ reqs' = reqs \cup {Finished(slot)}
               ELSE /\ reqs' = reqs \cup {Pending(slot, "add_transaction", asset_id, 0,
                                                  decision.fields)}
                    /\ UNCHANGED <<assets, txs, outcome>>
            /\ UNCHANGED <<rp, ls, dash, px>>

\* edit_transaction up to validate_asset_transactions
BeginEdit ==
    \E slot \in FreeSlots, asset_id \in DOMAIN assets, tx_id \in TxIds :
      \E form \in FormsFor(asset_id) :
        LET decision == EditDecision(asset_id, tx_id, form, AssetHistory(txs, asset_id))
        IN  /\ Loaded(txs, asset_id, tx_id) # {}
            /\ IF decision.error # NoError
               THEN /\ Rejected("edit_transaction", decision.error)
                    /\ reqs' = reqs \cup {Finished(slot)}
               ELSE /\ reqs' = reqs \cup {Pending(slot, "edit_transaction", asset_id, tx_id,
                                                  decision.fields)}
                    /\ UNCHANGED <<assets, txs, outcome>>
            /\ UNCHANGED <<rp, ls, dash, px>>

\* delete_transaction up to validate_asset_transactions
BeginDelete ==
    \E slot \in FreeSlots, asset_id \in DOMAIN assets, tx_id \in TxIds :
        LET error == DeleteDecision(asset_id, tx_id, AssetHistory(txs, asset_id))
        IN  /\ Loaded(txs, asset_id, tx_id) # {}
            /\ IF error # NoError
               THEN /\ Rejected("delete_transaction", error)
                    /\ reqs' = reqs \cup {Finished(slot)}
               ELSE /\ reqs' = reqs \cup {Pending(slot, "delete_transaction", asset_id, tx_id,
                                                  NoTx)}
                    /\ UNCHANGED <<assets, txs, outcome>>
            /\ UNCHANGED <<rp, ls, dash, px>>

\* add_transaction from db.add(tx) to db.commit()
CommitAdd ==
    \E r \in reqs :
        /\ r.op = "add_transaction"
        /\ txs' = txs \cup {Row(NextTxId(txs), r.asset_id, r.fields)}
        /\ reqs' = (reqs \ {r}) \cup {Finished(r.slot)}
        /\ Done(r.op, "accepted")
        /\ UNCHANGED <<assets, rp, ls, dash, px>>

\* edit_transaction from the assignments to db.commit(); an UPDATE that
\* matches no row changes nothing
CommitEdit ==
    \E r \in reqs :
        /\ r.op = "edit_transaction"
        /\ IF Loaded(txs, r.asset_id, r.tx_id) = {}
           THEN UNCHANGED txs /\ Done(r.op, "stale")
           ELSE txs' = Updated(txs, r.asset_id, r.tx_id, r.fields) /\ Done(r.op, "accepted")
        /\ reqs' = (reqs \ {r}) \cup {Finished(r.slot)}
        /\ UNCHANGED <<assets, rp, ls, dash, px>>

\* delete_transaction from db.delete(tx) to db.commit()
CommitDelete ==
    \E r \in reqs :
        /\ r.op = "delete_transaction"
        /\ txs' = txs \ Loaded(txs, r.asset_id, r.tx_id)
        /\ reqs' = (reqs \ {r}) \cup {Finished(r.slot)}
        /\ Done(r.op, "accepted")
        /\ UNCHANGED <<assets, rp, ls, dash, px>>

\* the ledger after one accepted create_asset whose seed history is valid
InitConc ==
    /\ rp = ReplayIdle
    /\ ListIdle
    /\ DashIdle
    /\ PricingIdle
    /\ reqs = {}
    /\ outcome = [op |-> "create_asset", result |-> "accepted"]
    /\ \E form \in MarketAssetForms \cup ManualAssetForms, now \in 1..MaxStamp :
          LET parsed == IF form.asset_type = MARKET THEN MarketSeeds(form, Aware(now, 0))
                        ELSE ManualSeeds(form, Aware(now, 0))
          IN  /\ parsed.error = NoError
              /\ Len(parsed.seeds) > 0
              /\ assets = <<[symbol |-> "AAA", asset_type |-> form.asset_type,
                             is_archived |-> FALSE]>>
              /\ txs = {Row(i, 1, parsed.seeds[i]) : i \in 1..Len(parsed.seeds)}
              /\ HistoryValid(txs, 1)

NextConc == BeginAdd \/ BeginEdit \/ BeginDelete \/ CommitAdd \/ CommitEdit \/ CommitDelete

SpecConc == InitConc /\ [][NextConc]_vars

\* C3: for every interleaving of two concurrent add/edit/delete requests on
\* one asset, each reading the history, validating and then committing, the
\* history persisted once both have finished passes validation.
C3_ConcurrentWritesKeepHistoryValid ==
    AllFinished => \A asset_id \in DOMAIN assets : HistoryValid(txs, asset_id)

(***************************************************************************)
(* Quotes: PricingService.get_quote on the request's session.  The session *)
(* is what the unit of work holds: the quote_cache rows as the session     *)
(* sees them (committed rows, flushed writes and attributes assigned but   *)
(* not flushed), the symbols whose row has unflushed assignments, the      *)
(* QuoteCache objects added but not flushed, whether the transaction was   *)
(* rolled back by a failed flush and waits for Session.rollback(), and     *)
(* whether a write has failed in this request.  The session is created     *)
(* with autoflush off, so a query neither flushes nor sees added objects.  *)
(***************************************************************************)
\* the clock counts units of the ttl, so the ttl is one unit
ttl_seconds == 1

PendingRollbackError == "PendingRollbackError"
IntegrityError == "IntegrityError"
ProviderDown == "provider unavailable"
DatabaseLocked == "database is locked"

QuoteCache(price, fetched_at) == [price |-> price, fetched_at |-> fetched_at]

QuoteResult(symbol, price, fetched_at, stale, warning) ==
    [symbol |-> symbol, price |-> price, fetched_at |-> fetched_at, stale |-> stale,
     warning |-> warning]

\* the session get_db opens on the committed table
NewSession(table) ==
    [rows |-> table, dirty |-> {}, new |-> [symbol \in DOMAIN table |-> <<>>],
     inactive |-> FALSE, failed_write |-> FALSE]

\* the unique index on quote_cache.symbol refuses the INSERTs of a flush
Conflict(sess) ==
    \E symbol \in DOMAIN sess.rows :
        \/ Len(sess.new[symbol]) > 1
        \/ Len(sess.new[symbol]) = 1 /\ sess.rows[symbol] # None

\* a flush that forgets the added objects
Flush_DropsAdded(sess) ==
    [sess EXCEPT !.dirty = {}, !.new = [symbol \in DOMAIN sess.rows |-> <<>>]]

\* a flush that succeeds: the added objects become rows, nothing is left to write
Flush(sess) ==
    [sess EXCEPT !.rows = [symbol \in DOMAIN sess.rows |->
                              IF sess.new[symbol] # <<>> THEN Some(sess.new[symbol][1])
                              ELSE sess.rows[symbol]],
                 !.dirty = {},
                 !.new = [symbol \in DOMAIN sess.rows |-> <<>>]]

\* a flush that fails in the database: the session rolls its transaction
\* back, expunges the added objects, expires the loaded ones and accepts
\* no statement until Session.rollback()
FlushRolledBack(sess, table) ==
    [rows |-> table, dirty |-> {}, new |-> [symbol \in DOMAIN table |-> <<>>],
     inactive |-> TRUE, failed_write |-> TRUE]

\* a fallback that reports the quote as unavailable
StaleFallback_Unavailable(symbol, cached, exc) == None

\* the except branch: the stale copy of `cached`, or None
StaleFallback(symbol, cached, exc) ==
    IF cached # None
    THEN Some(QuoteResult(symbol, cached[1].price, cached[1].fetched_at, TRUE,
                          Some("Using cached quote due to provider issue: " \o exc)))
    ELSE None

\* a provider error that leaves get_quote
ProviderFailed_Propagates(sess, symbol, cached) ==
    [raised |-> ProviderDown, value |-> None, sess |-> sess]

\* get_latest_quote raised: the except branch answers, nothing was assigned
ProviderFailed(sess, symbol, cached) ==
    [raised |-> NoError, value |-> StaleFallback(symbol, cached, ProviderDown),
     sess |-> sess]

\* an entry whose age is one ttl short of what the check allows
WithinTtl_Strict(cached, now) ==
    cached # None /\ now - cached[1].fetched_at < ttl_seconds

\* `if cached:` and `age_seconds <= self.ttl_seconds`
WithinTtl(cached, now) ==
    cached # None /\ now - cached[1].fetched_at <= ttl_seconds

\* get_quote(db, symbol) at clock reading now; provider says whether
\* get_latest_quote returns fresh_price or raises, flush how db.flush() ends:
\* "ok", "raises" (the error leaves the session as it was) or "rolls back"
get_quote(sess, table, symbol, now, provider, fresh_price, flush) ==
    IF sess.inactive
    THEN [raised |-> PendingRollbackError, value |-> None, sess |-> sess]
    ELSE
    LET cached == sess.rows[symbol]
        fresh == QuoteCache(fresh_price, now)
        assigned == IF cached = None
                    THEN [sess EXCEPT !.new[symbol] = Append(@, fresh)]
                    ELSE [sess EXCEPT !.rows[symbol] = Some(fresh),
                                      !.dirty = @ \cup {symbol}]
    IN  IF WithinTtl(cached, now)
        THEN [raised |-> NoError,
              value |-> Some(QuoteResult(symbol, cached[1].price, cached[1].fetched_at,
                                         FALSE, None)),
              sess |-> sess]
        ELSE IF provider = "fails"
        THEN ProviderFailed(sess, symbol, cached)
        ELSE IF flush = "ok"
        THEN [raised |-> NoError,
              value |-> Some(QuoteResult(symbol, fresh_price, now, FALSE, None)),
              sess |-> Flush(assigned)]
        ELSE IF flush = "raises"
        THEN [raised |-> NoError,
              value |-> StaleFallback(symbol, Some(fresh), DatabaseLocked),
              sess |-> [assigned EXCEPT !.failed_write = TRUE]]
        ELSE IF cached = None
        THEN [raised |-> NoError,
              value |-> StaleFallback(symbol, Some(fresh), DatabaseLocked),
              sess |-> FlushRolledBack(assigned, table)]
        ELSE [raised |-> PendingRollbackError, value |-> None,
              sess |-> FlushRolledBack(assigned, table)]

(***************************************************************************)
(* The dashboard: per-asset rows, derived basket rows, totals, allocation. *)
(* Rows are kept as a set (their asset_id tells them apart); the order of  *)
(* the lists, as_of, detail_path and display_badge are left out.           *)
(***************************************************************************)
\* sum(...) and the += accumulations, over the values of f
RECURSIVE RSum(_)
RSum(f) ==
    IF DOMAIN f = {} THEN Zero
    ELSE LET k == CHOOSE k \in DOMAIN f : TRUE
         IN  RAdd(f[k], RSum([j \in DOMAIN f \ {k} |-> f[j]]))

Hundred == R(100)

\* percentages as plain fractions of the total
compute_allocation_percentages_Fractions(values_by_key) ==
    LET total == RSum(values_by_key)
    IN  IF RLe(total, Zero) THEN [key \in DOMAIN values_by_key |-> Zero]
        ELSE [key \in DOMAIN values_by_key |-> RDiv(values_by_key[key], total)]

compute_allocation_percentages(values_by_key) ==
    LET total == RSum(values_by_key)
    IN  IF RLe(total, Zero) THEN [key \in DOMAIN values_by_key |-> Zero]
        ELSE [key \in DOMAIN values_by_key |->
                 RMul(RDiv(values_by_key[key], total), Hundred)]

PositionRow(asset_id, symbol, name, group_name, asset_type, quantity, avg_cost, current_price, current_value, unrealized_pnl, quote_stale, row_kind, valuation_scope, counts, basket_member_ids) ==
    [asset_id |-> asset_id, symbol |-> symbol, name |-> name, group_name |-> group_name,
     asset_type |-> asset_type, quantity |-> quantity, avg_cost |-> avg_cost,
     current_price |-> current_price, current_value |-> current_value,
     unrealized_pnl |-> unrealized_pnl, allocation_pct |-> Zero,
     quote_stale |-> quote_stale, row_kind |-> row_kind,
     valuation_scope |-> valuation_scope, counts_in_totals |-> counts,
     counts_in_allocation |-> counts, basket_member_ids |-> basket_member_ids,
     in_basket_member |-> FALSE]

\* the row of a MARKET asset, from its replayed position
MarketRow(asset, quote, market) ==
    PositionRow(asset.id, asset.symbol, asset.name, asset.group_name, asset.asset_type,
                market.quantity, market.avg_cost,
                IF quote # None THEN quote[1].price ELSE None,
                IF quote # None THEN RMul(market.quantity, quote[1].price) ELSE Zero,
                IF quote # None
                THEN RMul(RSub(quote[1].price, market.avg_cost), market.quantity)
                ELSE None,
                IF quote # None THEN quote[1].stale ELSE FALSE,
                "asset", "canonical", TRUE, {})

\* the row of a MANUAL asset, from its replayed position
ManualRow(asset, manual) ==
    PositionRow(asset.id, asset.symbol, asset.name, asset.group_name, asset.asset_type,
                None,
                IF RGt(manual.invested_total, Zero) THEN manual.invested_total ELSE None,
                None, manual.current_value, manual.unrealized_pnl, FALSE,
                "asset", "canonical", TRUE, {})

\* compute_asset_position; quote is what get_quote returned for asset.symbol
compute_asset_position(asset, quote) ==
    IF asset.asset_type = MARKET
    THEN MarketRow(asset, quote, compute_market_position(asset.transactions))
    ELSE ManualRow(asset, compute_manual_position(asset.transactions))

\* link.asset of a basket link
LinkedAsset(all_assets, asset_id) == CHOOSE asset \in all_assets : asset.id = asset_id

\* links that count whatever the type of the linked asset
LiveMarketLinks_AnyType(basket, all_assets, asset_positions) ==
    {asset_id \in basket.links : asset_id \in DOMAIN asset_positions}

\* the links of a basket to non-archived MARKET assets that have a row
LiveMarketLinks(basket, all_assets, asset_positions) ==
    {asset_id \in basket.links :
        /\ LinkedAsset(all_assets, asset_id).asset_type = MARKET
        /\ ~LinkedAsset(all_assets, asset_id).is_archived
        /\ asset_id \in DOMAIN asset_positions}

BasketRow(basket, all_assets, asset_positions, counts) ==
    LET market_links == LiveMarketLinks(basket, all_assets, asset_positions)
        reporting == {asset_id \in market_links :
                         asset_positions[asset_id].unrealized_pnl # None}
        current_value == RSum([asset_id \in market_links |->
                                  asset_positions[asset_id].current_value])
        derived_pnl == RSum([asset_id \in reporting |->
                                asset_positions[asset_id].unrealized_pnl])
    IN  PositionRow(-basket.id, "BASKET:" \o ToString(basket.id), basket.name, "baskets",
                    MANUAL, None, None, None, current_value,
                    IF reporting # {} THEN derived_pnl ELSE None,
                    \E asset_id \in market_links : asset_positions[asset_id].quote_stale,
                    "basket", "derived", counts, market_links)

\* a basket row that counts in the totals
_compute_basket_position_CountsInTotals(basket, all_assets, asset_positions) ==
    BasketRow(basket, all_assets, asset_positions, TRUE)

_compute_basket_position(basket, all_assets, asset_positions) ==
    BasketRow(basket, all_assets, asset_positions, FALSE)

PnlOrZero(row) == IF row.unrealized_pnl # None THEN row.unrealized_pnl ELSE Zero

\* the price a provider call returns during the request
DashFresh == R(MaxPrice)

\* the get_quote calls of the loop over the sorted assets, one per MARKET
\* asset, on the request's session: the quotes by asset id and the session
\* after the last call.  The assets of the model sort by id.
RECURSIVE SnapshotQuotes(_, _, _, _, _)
SnapshotQuotes(sess, table, live, ids, now) ==
    IF ids = {} THEN [quotes |-> <<>>, sess |-> sess, raised |-> NoError]
    ELSE LET asset_id == CHOOSE id \in ids : \A other \in ids : id <= other
             call == get_quote(sess, table, LinkedAsset(live, asset_id).symbol, now,
                               LinkedAsset(live, asset_id).provider, DashFresh, "ok")
             rest == SnapshotQuotes(call.sess, table, live, ids \ {asset_id}, now)
         IN  IF call.raised # NoError
             THEN [quotes |-> <<>>, sess |-> call.sess, raised |-> call.raised]
             ELSE [quotes |-> (asset_id :> call.value) @@ rest.quotes,
                   sess |-> rest.sess, raised |-> rest.raised]

MarketIds(live) == {asset.id : asset \in {a \in live : a.asset_type = MARKET}}

\* the rows of the non-archived assets, by asset id
AssetPositions(live, quotes) ==
    [asset_id \in {asset.id : asset \in live} |->
        compute_asset_position(LinkedAsset(live, asset_id),
                               IF asset_id \in DOMAIN quotes THEN quotes[asset_id]
                               ELSE None)]

BasketMemberAssetIds(all_assets, baskets, asset_positions) ==
    UNION {LiveMarketLinks(basket, all_assets, asset_positions) : basket \in baskets}

\* the asset rows with in_basket_member set, and the basket rows
SnapshotRows(all_assets, baskets, asset_positions, basket_member_asset_ids) ==
    {[asset_positions[asset_id] EXCEPT
         !.in_basket_member = asset_id \in basket_member_asset_ids] :
         asset_id \in DOMAIN asset_positions}
    \cup {_compute_basket_position(basket, all_assets, asset_positions) :
             basket \in baskets}

CanonicalRows(positions) == {row \in positions : row.counts_in_totals}
DerivedRows(positions) == {row \in positions : ~row.counts_in_totals}

AllocationMap(positions) ==
    compute_allocation_percentages(
        [asset_id \in {row.asset_id : row \in {r \in CanonicalRows(positions) :
                                                   r.counts_in_allocation}} |->
            (CHOOSE row \in CanonicalRows(positions) :
                row.asset_id = asset_id).current_value])

WithAllocation(row, allocation_map) ==
    [row EXCEPT !.allocation_pct =
        IF row.counts_in_allocation /\ row.asset_id \in DOMAIN allocation_map
        THEN allocation_map[row.asset_id] ELSE Zero]

GroupTotals(canonical) ==
    [group_name \in {row.group_name : row \in canonical} |->
        [value |-> RSum([row \in {r \in canonical : r.group_name = group_name} |->
                            row.current_value]),
         pnl |-> RSum([row \in {r \in canonical : r.group_name = group_name} |->
                          PnlOrZero(row)])]]

\* the DashboardSnapshot returned
SnapshotOf(positions, canonical, derived, group_totals, total_value, total_pnl, allocation_map, basket_member_asset_ids) ==
    [positions |-> {WithAllocation(row, allocation_map) : row \in positions},
     canonical_positions |-> {WithAllocation(row, allocation_map) : row \in canonical},
     derived_positions |-> {WithAllocation(row, allocation_map) : row \in derived},
     canonical_group_totals |-> group_totals,
     canonical_total_value |-> total_value,
     canonical_total_unrealized_pnl |-> total_pnl,
     derived_total_value |-> RSum([row \in derived |-> row.current_value]),
     derived_total_unrealized_pnl |-> RSum([row \in derived |-> PnlOrZero(row)]),
     basket_member_asset_ids |-> basket_member_asset_ids,
     group_totals |-> group_totals,
     total_value |-> total_value,
     total_unrealized_pnl |-> total_pnl]

SnapshotFromRows(positions, basket_member_asset_ids) ==
    SnapshotOf(positions, CanonicalRows(positions), DerivedRows(positions),
               GroupTotals(CanonicalRows(positions)),
               RSum([row \in CanonicalRows(positions) |-> row.current_value]),
               RSum([row \in CanonicalRows(positions) |-> PnlOrZero(row)]),
               AllocationMap(positions), basket_member_asset_ids)

SnapshotFromPositions(all_assets, baskets, asset_positions, basket_member_asset_ids) ==
    SnapshotFromRows(SnapshotRows(all_assets, baskets, asset_positions,
                                  basket_member_asset_ids),
                     basket_member_asset_ids)

SnapshotFromAssets(all_assets, baskets, asset_positions) ==
    SnapshotFromPositions(all_assets, baskets, asset_positions,
                          BasketMemberAssetIds(all_assets, baskets, asset_positions))

\* a query without the is_archived filter
LiveAssets_All(all_assets) == all_assets

LiveAssets(all_assets) == {asset \in all_assets : ~asset.is_archived}

\* build_dashboard_snapshot on a new session over the committed quote_cache
\* table, at clock reading now
build_dashboard_snapshot(all_assets, baskets, table, now) ==
    SnapshotFromAssets(all_assets, baskets,
        AssetPositions(LiveAssets(all_assets),
                       SnapshotQuotes(NewSession(table), table, LiveAssets(all_assets),
                                      MarketIds(LiveAssets(all_assets)), now).quotes))

\* the session after the snapshot's get_quote calls, and the error that
\* left one of them, if any
SnapshotCalls(all_assets, table, now) ==
    SnapshotQuotes(NewSession(table), table, LiveAssets(all_assets),
                   MarketIds(LiveAssets(all_assets)), now)

\* AllocationChartData: the labels, and values and percentages by label
AllocationChartData(values_by_label) ==
    [labels |-> DOMAIN values_by_label,
     values |-> values_by_label,
     percentages |-> compute_allocation_percentages(values_by_label)]

allocation_by_group(positions) ==
    LET counted == {row \in positions :
                       row.counts_in_allocation /\ RGt(row.current_value, Zero)}
    IN  AllocationChartData(
            [group_name \in {row.group_name : row \in counted} |->
                RSum([row \in {r \in counted : r.group_name = group_name} |->
                         row.current_value])])

SliceLabel(row) == IF row.row_kind = "basket" THEN row.name ELSE row.symbol

\* slices that keep the basket members under their own symbols
allocation_by_asset_KeepsMembers(positions, basket_member_asset_ids) ==
    LET counted == {row \in positions : RGt(row.current_value, Zero)}
    IN  AllocationChartData(
            [label \in {SliceLabel(row) : row \in counted} |->
                RSum([row \in {r \in counted : SliceLabel(r) = label} |->
                         row.current_value])])

allocation_by_asset(positions, basket_member_asset_ids) ==
    LET counted == {row \in positions :
                       /\ RGt(row.current_value, Zero)
                       /\ \/ row.row_kind = "basket"
                          \/ row.asset_id \notin basket_member_asset_ids}
    IN  AllocationChartData(
            [label \in {SliceLabel(row) : row \in counted} |->
                RSum([row \in {r \in counted : SliceLabel(r) = label} |->
                         row.current_value])])

\* the portfolio a dashboard request finds.  Asset i holds i units bought at
\* 1; symbols are not unique in the schema, so asset 2 may carry the
\* symbol of asset 1.  The provider answers or fails call by call; the
\* quote_cache row of SYM1 is absent, older than the ttl or within it (the
\* last two where the provider fails on asset 1, which is where they show),
\* the other symbols have no row.

DashHolding(id) == <<Tx(id, BUY, Aware(id, 0), R(id), One, Zero, None, None)>>

DashAsset(id, symbol, group_name, asset_type, is_archived, transactions, provider) ==
    [id |-> id, symbol |-> symbol, name |-> "Asset " \o ToString(id),
     group_name |-> group_name, asset_type |-> asset_type, is_archived |-> is_archived,
     transactions |-> transactions, provider |-> provider]

DashKinds == {"quoted", "unquoted", "archived", "manual"}
DashCaches == {"absent", "expired", "fresh"}

\* asset id of the given kind, under its own symbol or under that of asset 1
DashAssetOf(id, kind, shares_symbol) ==
    LET symbol == IF shares_symbol THEN "SYM1" ELSE "SYM" \o ToString(id)
    IN  CASE kind = "quoted" ->
                 DashAsset(id, symbol, "Core", MARKET, FALSE, DashHolding(id), "ok")
          [] kind = "unquoted" ->
                 DashAsset(id, symbol, "Core", MARKET, FALSE, DashHolding(id), "fails")
          [] kind = "archived" ->
                 DashAsset(id, symbol, "Core", MARKET, TRUE, DashHolding(id), "ok")
          [] kind = "manual" ->
                 DashAsset(id, symbol, "Satellite", MANUAL, FALSE,
                           <<Tx(id, MANUAL_VALUE_UPDATE, Aware(id, 0), None, None, Zero,
                                R(id), None)>>, "ok")

\* a number for a set of asset ids
RECURSIVE LinksCode(_)
LinksCode(ids) ==
    IF ids = {} THEN 0
    ELSE LET id == CHOOSE id \in ids : TRUE
         IN  2 ^ (id - 1) + LinksCode(ids \ {id})

\* n assets with ids 1..n and m baskets with ids 1..m, each basket linked to
\* any of the assets.  Baskets differ by their links alone, so they are
\* numbered in the order of their link sets.
BasketsInOrder(links) ==
    \A i, j \in DOMAIN links : i < j => LinksCode(links[i]) <= LinksCode(links[j])

DashNow == MaxClock

DashTable(n, cache) ==
    [symbol \in {"SYM" \o ToString(id) : id \in 1..n} |->
        IF symbol = "SYM1" /\ cache = "expired" THEN Some(QuoteCache(One, 0))
        ELSE IF symbol = "SYM1" /\ cache = "fresh" THEN Some(QuoteCache(One, DashNow))
        ELSE None]

DashPortfolio(kinds, shares, links, cache) ==
    [phase |-> "portfolio", now |-> DashNow,
     table |-> DashTable(Len(kinds), cache),
     assets |-> {DashAssetOf(id, kinds[id], shares[id]) : id \in DOMAIN kinds},
     baskets |-> {[id |-> id, name |-> "Basket " \o ToString(id), links |-> links[id]] :
                     id \in DOMAIN links}]

\* the values a caller may hand to compute_allocation_percentages
AllocationInputs ==
    UNION {{[phase |-> "values", values_by_key |-> v] :
               v \in [1..n -> {R(-1), Zero, One, R(MaxPrice)}]} : n \in 0..MaxKeys}

\* what the page is rendered from
RenderedPage(request, snapshot) ==
    [phase |-> "rendered", now |-> request.now, assets |-> request.assets,
     baskets |-> request.baskets, table_before |-> request.table,
     table |-> SnapshotCalls(request.assets, request.table, request.now).sess.rows,
     snapshot |-> snapshot,
     group_allocation |-> allocation_by_group(snapshot.positions),
     asset_allocation |-> allocation_by_asset(snapshot.positions,
                                              snapshot.basket_member_asset_ids)]

\* GET /: the snapshot and the two allocation charts
dashboard_page ==
    /\ dash.phase = "portfolio"
    /\ dash' = IF SnapshotCalls(dash.assets, dash.table, dash.now).raised # NoError
                THEN [phase |-> "failed",
                      raised |-> SnapshotCalls(dash.assets, dash.table, dash.now).raised]
                ELSE RenderedPage(dash, build_dashboard_snapshot(dash.assets, dash.baskets,
                                                                 dash.table, dash.now))
    /\ UNCHANGED <<assets, txs, outcome, reqs, rp, ls, px>>

CallAllocationPercentages ==
    /\ dash.phase = "values"
    /\ dash' = [phase |-> "percentages", values_by_key |-> dash.values_by_key,
                result |-> compute_allocation_percentages(dash.values_by_key)]
    /\ UNCHANGED <<assets, txs, outcome, reqs, rp, ls, px>>

InitDash == /\ LedgerIdle
            /\ rp = ReplayIdle
            /\ ListIdle
            /\ PricingIdle
            /\ \/ \E n \in 0..MaxAssets, m \in 0..MaxBaskets :
                     \E kinds \in [1..n -> DashKinds], shares \in [1..n -> BOOLEAN],
                        links \in [1..m -> SUBSET (1..n)], cache \in DashCaches :
                        /\ \A id \in 1..n : shares[id] => id = 2
                        /\ (cache # "absent" => n > 0 /\ kinds[1] = "unquoted")
                        /\ BasketsInOrder(links)
                        /\ dash = DashPortfolio(kinds, shares, links, cache)
               \/ dash \in AllocationInputs

NextDash == dashboard_page \/ CallAllocationPercentages

SpecDash == InitDash /\ [][NextDash]_vars

Rendered == dash.phase = "rendered"
DashAssetRows == {row \in dash.snapshot.positions : row.row_kind = "asset"}
DashBasketRows == {row \in dash.snapshot.positions : row.row_kind = "basket"}
LiveAssetIds == {asset.id : asset \in {a \in dash.assets : ~a.is_archived}}
RowOf(asset_id) == CHOOSE row \in DashAssetRows : row.asset_id = asset_id
BasketOf(row) == CHOOSE basket \in dash.baskets : basket.id = -row.asset_id

\* C12: the canonical total (and total_value) is the sum of current_value
\* over the rows of the non-archived assets, one row per such asset; every
\* canonical group total is the sum over that group's asset rows; basket
\* rows add to neither, however many baskets an asset is linked to.
C12_CanonicalTotalsAreAssetSums ==
    Rendered =>
        /\ {row.asset_id : row \in DashAssetRows} = LiveAssetIds
        /\ Cardinality(DashAssetRows) = Cardinality(LiveAssetIds)
        /\ dash.snapshot.canonical_total_value =
               RSum([asset_id \in LiveAssetIds |-> RowOf(asset_id).current_value])
        /\ dash.snapshot.total_value = dash.snapshot.canonical_total_value
        /\ DOMAIN dash.snapshot.canonical_group_totals =
               {row.group_name : row \in DashAssetRows}
        /\ \A group_name \in DOMAIN dash.snapshot.canonical_group_totals :
               dash.snapshot.canonical_group_totals[group_name].value =
                   RSum([asset_id \in {id \in LiveAssetIds :
                                          RowOf(id).group_name = group_name} |->
                            RowOf(asset_id).current_value])
        /\ dash.snapshot.group_totals = dash.snapshot.canonical_group_totals

\* one asset with a positive value linked to two baskets of positive value,
\* next to a second group
C12_Witness ==
    /\ Rendered
    /\ \E b1, b2 \in DashBasketRows :
          /\ b1 # b2
          /\ b1.basket_member_ids \cap b2.basket_member_ids # {}
          /\ RGt(b1.current_value, Zero)
    /\ Cardinality(DOMAIN dash.snapshot.canonical_group_totals) = 2
    /\ RGt(dash.snapshot.canonical_total_value, Zero)

\* the members of a basket that are non-archived MARKET assets
LiveMarketMembers(basket) ==
    {asset \in dash.assets :
        /\ asset.id \in basket.links
        /\ asset.asset_type = MARKET
        /\ ~asset.is_archived}

\* C13: there is one derived row per basket; its current_value is the sum of
\* current_value over its members that are non-archived MARKET assets, its
\* unrealized_pnl is the sum of the P&Ls those members report, or None when
\* none reports one, and it counts neither in totals nor in allocation.
C13_BasketRowIsDerivedSum ==
    Rendered =>
        /\ {-row.asset_id : row \in DashBasketRows} = {basket.id : basket \in dash.baskets}
        /\ Cardinality(DashBasketRows) = Cardinality(dash.baskets)
        /\ \A row \in DashBasketRows :
              LET members == LiveMarketMembers(BasketOf(row))
                  reporting == {asset \in members : RowOf(asset.id).unrealized_pnl # None}
              IN  /\ row.current_value =
                         RSum([asset \in members |-> RowOf(asset.id).current_value])
                  /\ row.unrealized_pnl =
                         (IF reporting = {} THEN None
                          ELSE RSum([asset \in reporting |->
                                        RowOf(asset.id).unrealized_pnl]))
                  /\ row.valuation_scope = "derived"
                  /\ ~row.counts_in_totals
                  /\ ~row.counts_in_allocation

\* a basket linked to a quoted MARKET asset and to a MANUAL or archived one,
\* next to a basket whose only link is to the latter
C13_Witness ==
    /\ Rendered
    /\ \E row \in DashBasketRows :
          /\ LiveMarketMembers(BasketOf(row)) # {}
          /\ {asset.id : asset \in LiveMarketMembers(BasketOf(row))} # BasketOf(row).links
          /\ RGt(row.current_value, Zero)
          /\ row.unrealized_pnl # None
    /\ \E row \in DashBasketRows :
          /\ BasketOf(row).links # {}
          /\ LiveMarketMembers(BasketOf(row)) = {}
          /\ row.unrealized_pnl = None

\* C14: in allocation_by_asset no holding is counted twice: the slice values
\* never sum to more than the canonical total value of the snapshot,
\* whatever the assignment of assets to baskets.
C14_SlicesWithinCanonicalTotal ==
    Rendered =>
        RLe(RSum(dash.asset_allocation.values), dash.snapshot.canonical_total_value)

\* the assets some basket links, and those that are live MARKET members
LinkedIds == UNION {basket.links : basket \in dash.baskets}
LiveMemberIds == {asset.id : asset \in UNION {LiveMarketMembers(basket) :
                                                 basket \in dash.baskets}}
SliceLabels == dash.asset_allocation.labels

\* C15 as stated: an asset linked to at least one basket never appears as a
\* slice under its own symbol, every basket with positive derived value is a
\* slice labelled with its name, and every asset outside all baskets with
\* positive value is a slice labelled with its symbol.
C15_AsStated ==
    Rendered =>
        /\ \A row \in DashAssetRows :
              row.asset_id \in LinkedIds => row.symbol \notin SliceLabels
        /\ \A row \in DashBasketRows :
              RGt(row.current_value, Zero) => row.name \in SliceLabels
        /\ \A row \in DashAssetRows :
              (row.asset_id \notin LinkedIds /\ RGt(row.current_value, Zero))
                  => row.symbol \in SliceLabels

\* C15: the slices are the baskets with positive derived value, labelled with
\* the basket name, and the assets with positive value that are not a
\* non-archived MARKET member of any basket, labelled with their symbol; a
\* member's value is in no symbol slice, and rows with one label share a
\* slice that holds the sum of their values.
C15_SlicesReplaceLiveMembers ==
    Rendered =>
        LET own == {row \in DashAssetRows :
                       row.asset_id \notin LiveMemberIds /\ RGt(row.current_value, Zero)}
            shown == {row \in DashBasketRows : RGt(row.current_value, Zero)}
        IN  /\ SliceLabels = {row.symbol : row \in own} \cup {row.name : row \in shown}
            /\ \A label \in SliceLabels :
                  dash.asset_allocation.values[label] =
                      RAdd(RSum([row \in {r \in own : r.symbol = label} |->
                                    row.current_value]),
                           RSum([row \in {r \in shown : r.name = label} |->
                                    row.current_value]))

\* a basket linked to a quoted MARKET asset and to a MANUAL asset: the basket
\* is a slice, the MARKET member is not, the MANUAL asset keeps its own
C15_Witness ==
    /\ Rendered
    /\ \E basket \in dash.baskets, market, manual \in DashAssetRows :
          /\ {market.asset_id, manual.asset_id} \subseteq basket.links
          /\ market.asset_id \in LiveMemberIds
          /\ RGt(market.current_value, Zero)
          /\ market.symbol \notin SliceLabels
          /\ basket.name \in SliceLabels
          /\ manual.asset_type = MANUAL
          /\ RGt(manual.current_value, Zero)
          /\ manual.symbol \in SliceLabels

Percentages == dash.phase = "percentages"
AllZero(f) == \A key \in DOMAIN f : f[key] = Zero

\* C16 as stated: the percentages sum to 100 whenever the total of the input
\* values is not 0, and are all zero when it is 0.
C16_AsStated ==
    Percentages =>
        /\ DOMAIN dash.result = DOMAIN dash.values_by_key
        /\ IF RSum(dash.values_by_key) # Zero
           THEN RSum(dash.result) = Hundred
           ELSE AllZero(dash.result)

\* C16: compute_allocation_percentages returns one percentage per key; they
\* sum to 100 when the total of the input values is greater than 0, and are
\* all zero when the total is 0 or negative.
C16_SumTo100WhenTotalPositive ==
    Percentages =>
        /\ DOMAIN dash.result = DOMAIN dash.values_by_key
        /\ IF RGt(RSum(dash.values_by_key), Zero)
           THEN RSum(dash.result) = Hundred
           ELSE AllZero(dash.result)

\* two positive values of different size
C16_Witness ==
    /\ Percentages
    /\ \E k1, k2 \in DOMAIN dash.values_by_key :
          /\ RGt(dash.values_by_key[k1], Zero)
          /\ RGt(dash.values_by_key[k2], dash.values_by_key[k1])
          /\ RGt(dash.result[k2], dash.result[k1])
    /\ \A key \in DOMAIN dash.values_by_key : RGt(dash.values_by_key[key], Zero)
    /\ RSum(dash.result) = Hundred

QuotePrices == {One, R(MaxPrice)}

\* which steps of get_quote a call went through
CallsProvider(sess, symbol, now) ==
    /\ ~sess.inactive
    /\ ~WithinTtl(sess.rows[symbol], now)

\* one get_quote call of the request
GetQuote ==
    /\ px.phase = "request"
    /\ px.calls < MaxCalls
    /\ \E symbol \in Symbols, provider \in {"ok", "fails"}, fresh_price \in QuotePrices,
          outcome_of_flush \in {"ok", "raises", "rolls back"} :
          LET called == CallsProvider(px.sess, symbol, px.now)
              writes == called /\ provider = "ok"
              cached == px.sess.rows[symbol]
              would_conflict ==
                  Conflict(IF cached = None
                           THEN [px.sess EXCEPT !.new[symbol] =
                                    Append(@, QuoteCache(fresh_price, px.now))]
                           ELSE px.sess)
              flush == IF outcome_of_flush = "ok" /\ would_conflict
                       THEN "rolls back" ELSE outcome_of_flush
              returned == get_quote(px.sess, px.table, symbol, px.now, provider,
                                    fresh_price, flush)
          IN  /\ ~called => provider = "ok" /\ fresh_price = One
              /\ ~writes => outcome_of_flush = "ok"
              /\ px' = [px EXCEPT
                     !.sess = returned.sess,
                     !.calls = @ + 1,
                     !.last = [op |-> "get_quote", symbol |-> symbol, now |-> px.now,
                               cached |-> IF px.sess.inactive THEN None ELSE cached,
                               provider |-> IF called THEN provider ELSE "not called",
                               fresh_price |-> fresh_price,
                               flush |-> IF writes THEN flush ELSE "not called",
                               raised |-> returned.raised, value |-> returned.value,
                               before |-> px.sess, table_before |-> px.table]]
    /\ UNCHANGED <<assets, txs, outcome, reqs, rp, ls, dash>>

\* time passes
Tick ==
    /\ px.phase = "request"
    /\ px.now < MaxClock
    /\ px' = [px EXCEPT !.now = @ + 1]
    /\ UNCHANGED <<assets, txs, outcome, reqs, rp, ls, dash>>

\* the db.commit() that ends the dashboard request, and the session the next
\* request gets
RequestCommit ==
    /\ px.phase = "request"
    /\ LET raised == IF px.sess.inactive THEN PendingRollbackError
                     ELSE IF Conflict(px.sess) THEN IntegrityError ELSE NoError
           table == IF raised = NoError THEN Flush(px.sess).rows ELSE px.table
       IN  px' = [px EXCEPT
                     !.table = table,
                     !.sess = NewSession(table),
                     !.last = [op |-> "commit", raised |-> raised,
                               before |-> px.sess, table_before |-> px.table]]
    /\ UNCHANGED <<assets, txs, outcome, reqs, rp, ls, dash>>

NoCall == [op |-> "none"]

InitQuotes ==
    /\ LedgerIdle
    /\ rp = ReplayIdle
    /\ ListIdle
    /\ DashIdle
    /\ \E table \in [Symbols -> {None} \cup {Some(QuoteCache(One, 0))}] :
          px = [phase |-> "request", table |-> table, sess |-> NewSession(table),
                now |-> 0, calls |-> 0, last |-> NoCall]

NextQuotes == GetQuote \/ Tick \/ RequestCommit

SpecQuotes == InitQuotes /\ [][NextQuotes]_vars

\* the last step was a get_quote call whose provider call and flush ended so
Called(provider, flush) ==
    /\ px.phase = "request"
    /\ px.last.op = "get_quote"
    /\ px.last.provider = provider
    /\ px.last.flush = flush

FlushFailed == Called("ok", "raises") \/ Called("ok", "rolls back")

\* C17: when the provider succeeds, the flush fails and an entry for the
\* symbol existed, get_quote returns the previously cached price with stale
\* = true and a warning, and the entry keeps its previous price.
C17_WriteFailureKeepsPreviousPrice ==
    (FlushFailed /\ px.last.cached # None) =>
        /\ px.last.raised = NoError
        /\ px.last.value # None
        /\ px.last.value[1].price = px.last.cached[1].price
        /\ px.last.value[1].stale
        /\ px.last.value[1].warning # None
        /\ px.sess.rows[px.last.symbol] # None
        /\ px.sess.rows[px.last.symbol][1].price = px.last.cached[1].price

NothingToWrite(sess) ==
    /\ sess.dirty = {}
    /\ \A symbol \in Symbols : sess.new[symbol] = <<>>

\* C18: when the provider succeeds, the flush fails and no entry for the
\* symbol existed, get_quote returns None and there is no entry for the
\* symbol afterwards.
C18_FailedInsertIsUnavailable ==
    (FlushFailed /\ px.last.cached = None) =>
        /\ px.last.raised = NoError
        /\ px.last.value = None
        /\ px.sess.rows[px.last.symbol] = None
        /\ px.sess.new[px.last.symbol] = <<>>

\* C19: a failed cache write is rolled back before get_quote returns: the
\* call does not raise, the session accepts further statements and holds
\* nothing of the failed write, and the commit that ends a request in which
\* a write failed succeeds.
C19_FailedWriteLeavesUnitOfWorkClean ==
    /\ FlushFailed =>
          /\ px.last.raised = NoError
          /\ ~px.sess.inactive
          /\ NothingToWrite(px.sess)
    /\ (px.phase = "request" /\ px.last.op = "commit" /\ px.last.before.failed_write) =>
          px.last.raised = NoError

\* C20: when the provider call fails, get_quote does not raise; it returns
\* the price and fetch time of the entry it found, with stale = true and a
\* warning, or None when it found no entry, and it leaves the session and
\* the table as they were: no entry is changed and none is created.
C20_ProviderFailureDegrades ==
    (px.phase = "request" /\ px.last.op = "get_quote" /\ px.last.provider = "fails") =>
        /\ px.last.raised = NoError
        /\ IF px.last.cached # None
           THEN /\ px.last.value # None
                /\ px.last.value[1].symbol = px.last.symbol
                /\ px.last.value[1].price = px.last.cached[1].price
                /\ px.last.value[1].fetched_at = px.last.cached[1].fetched_at
                /\ px.last.value[1].stale
                /\ px.last.value[1].warning # None
           ELSE px.last.value = None
        /\ px.sess = px.last.before
        /\ px.table = px.last.table_before

\* the provider fails on an expired entry that an earlier call of the
\* request refreshed
C20_Witness ==
    /\ px.phase = "request" /\ px.last.op = "get_quote" /\ px.last.provider = "fails"
    /\ px.last.cached # None
    /\ px.last.now - px.last.cached[1].fetched_at > ttl_seconds
    /\ px.last.cached # px.table[px.last.symbol]
    /\ px.last.value # None
    /\ px.last.value[1].stale

GotQuote == px.phase = "request" /\ px.last.op = "get_quote"

\* C21: when the query of get_quote finds an entry of age <= ttl_seconds, the
\* call returns that entry's price and fetch time with stale = false and no
\* warning, does not call the provider, and leaves the session and the
\* table as they were.
C21_WithinTtlServedFromCache ==
    (/\ GotQuote
     /\ px.last.cached # None
     /\ px.last.now - px.last.cached[1].fetched_at <= ttl_seconds) =>
        /\ px.last.raised = NoError
        /\ px.last.value =
               Some(QuoteResult(px.last.symbol, px.last.cached[1].price,
                                px.last.cached[1].fetched_at, FALSE, None))
        /\ px.last.provider = "not called"
        /\ px.sess = px.last.before
        /\ px.table = px.last.table_before

\* an entry exactly one ttl old is still served from the cache
C21_Witness ==
    /\ GotQuote
    /\ px.last.cached # None
    /\ px.last.now - px.last.cached[1].fetched_at = ttl_seconds
    /\ px.last.provider = "not called"
    /\ px.last.value # None
    /\ ~px.last.value[1].stale

\* the step is a get_quote call
QuoteStep ==
    /\ px.phase = "request"
    /\ px'.phase = "request"
    /\ px'.calls = px.calls + 1

\* C22: a get_quote call that finds the entry absent or expired, gets a
\* price from the provider and flushes returns that price and fetch time with
\* stale = false and leaves one entry for the symbol holding them; the next
\* get_quote call of the session for that symbol within the ttl returns the
\* same price and fetch time without calling the provider.
C22_RefreshThenServedFromCache ==
    [][QuoteStep =>
          /\ (px'.last.provider = "ok" /\ px'.last.flush = "ok") =>
                /\ px'.last.raised = NoError
                /\ px'.last.value =
                       Some(QuoteResult(px'.last.symbol, px'.last.fresh_price,
                                        px'.last.now, FALSE, None))
                /\ px'.sess.rows[px'.last.symbol] =
                       Some(QuoteCache(px'.last.fresh_price, px'.last.now))
                /\ px'.sess.new[px'.last.symbol] = <<>>
          /\ (/\ Called("ok", "ok")
              /\ px'.last.symbol = px.last.symbol
              /\ px'.last.now - px.last.now <= ttl_seconds) =>
                /\ px'.last.provider = "not called"
                /\ px'.last.value =
                       Some(QuoteResult(px.last.symbol, px.last.fresh_price,
                                        px.last.now, FALSE, None))]_vars

\* an entry inserted earlier in the request, not yet committed, is served a
\* ttl later without a provider call
C22_Witness ==
    /\ GotQuote
    /\ px.last.provider = "not called"
    /\ px.table[px.last.symbol] = None
    /\ px.last.cached # None
    /\ px.last.now - px.last.cached[1].fetched_at = ttl_seconds
    /\ ~px.last.before.failed_write
    /\ px.last.value # None
    /\ px.last.value[1].price = px.last.cached[1].price

\* C23: a result with stale = true carries the price of a cache entry older
\* than the ttl, and the provider call of that call failed; a result with
\* stale = false carries the price of an entry within the ttl or the price
\* the provider returned in that call.
C23_StaleOnlyAfterFailedFetch ==
    (GotQuote /\ px.last.value # None) =>
        IF px.last.value[1].stale
        THEN /\ px.last.provider = "fails"
             /\ px.last.cached # None
             /\ px.last.now - px.last.cached[1].fetched_at > ttl_seconds
             /\ px.last.value[1].price = px.last.cached[1].price
        ELSE \/ /\ px.last.provider = "not called"
                /\ px.last.cached # None
                /\ px.last.now - px.last.cached[1].fetched_at <= ttl_seconds
                /\ px.last.value[1].price = px.last.cached[1].price
             \/ /\ px.last.provider = "ok"
                /\ px.last.value[1].price = px.last.fresh_price

(***************************************************************************)
(* The dashboard when the quote provider fails.                            *)
(***************************************************************************)
LiveMarketAssets == {asset \in dash.assets : ~asset.is_archived /\ asset.asset_type = MARKET}

\* the entry of the asset's symbol as the request found it
CachedBefore(asset) == dash.table_before[asset.symbol]

\* the call for this asset needed no provider: the entry was within the ttl,
\* or an earlier call of the request had refreshed it
ServedFromCache(asset) ==
    \/ WithinTtl(CachedBefore(asset), dash.now)
    \/ \E earlier \in LiveMarketAssets :
          /\ earlier.id < asset.id
          /\ earlier.symbol = asset.symbol
          /\ earlier.provider = "ok"

\* the assets whose get_quote call asked the provider and saw it fail
AffectedAssets ==
    {asset \in LiveMarketAssets : asset.provider = "fails" /\ ~ServedFromCache(asset)}

\* the snapshot of the same portfolio when every provider call succeeds
SnapshotWithoutFailure ==
    build_dashboard_snapshot({[asset EXCEPT !.provider = "ok"] : asset \in dash.assets},
                             dash.baskets, dash.table_before, dash.now)

RowWithoutFailure(asset_id) ==
    CHOOSE row \in SnapshotWithoutFailure.positions : row.asset_id = asset_id

SameButAllocation(row, other) ==
    [row EXCEPT !.allocation_pct = Zero] = [other EXCEPT !.allocation_pct = Zero]

\* what the claim says of the rows; the rows of the unaffected assets are
\* compared in every field (exact) or in every field but allocation_pct
DegradedRows(exact) ==
    /\ dash.phase # "failed"
    /\ Rendered =>
          /\ {row.asset_id : row \in DashAssetRows} = LiveAssetIds
          /\ \A a, b \in DashAssetRows : a.asset_id = b.asset_id => a = b
          /\ \A asset \in AffectedAssets :
                IF CachedBefore(asset) # None
                THEN /\ RowOf(asset.id).current_price = CachedBefore(asset)[1].price
                     /\ RowOf(asset.id).quote_stale
                ELSE /\ RowOf(asset.id).current_price = None
                     /\ RowOf(asset.id).current_value = Zero
                     /\ RowOf(asset.id).unrealized_pnl = None
          /\ \A asset_id \in LiveAssetIds \ {asset.id : asset \in AffectedAssets} :
                IF exact THEN RowOf(asset_id) = RowWithoutFailure(asset_id)
                ELSE SameButAllocation(RowOf(asset_id), RowWithoutFailure(asset_id))


\* C24 as stated: the snapshot is built whatever provider calls fail, with
\* one row per non-archived asset; an affected row with a cached quote shows
\* the cached price as stale, one without shows no price, value 0 and no
\* P&L, and the rows of the other assets equal those of the snapshot without
\* the failure
C24_AsStated == DegradedRows(TRUE)

\* C24 amended: as above, but the rows of the unaffected assets equal those of
\* the snapshot without the failure in every field except allocation_pct,
\* which is their share of the total that the failure changed
C24_UnaffectedRowsKeepAllButAllocation == DegradedRows(FALSE)

C24_Witness ==
    /\ Rendered
    /\ \E asset \in AffectedAssets :
          /\ CachedBefore(asset) # None
          /\ RowOf(asset.id).quote_stale
    /\ \E asset_id \in LiveAssetIds \ {asset.id : asset \in AffectedAssets} :
          /\ RGt(RowOf(asset_id).current_value, Zero)
          /\ RowOf(asset_id).allocation_pct # RowWithoutFailure(asset_id).allocation_pct
          /\ SameButAllocation(RowOf(asset_id), RowWithoutFailure(asset_id))

(***************************************************************************)
(* Two requests that call get_quote for the same symbol at the same time.  *)
(* Each has its own session; the database is SQLite, with one writer at a  *)
(* time: the first statement of a flush takes the write lock, which the    *)
(* request keeps until it commits or rolls back.  A flush that finds the   *)
(* lock taken waits for it, and gives up with "database is locked" when    *)
(* the busy timeout ends first.                                            *)
(***************************************************************************)
RaceSymbol == "AAA"
RaceNow == MaxClock
Callers == 1..MaxInFlight

\* what provider.get_latest_quote returns to each caller
RacePrice(c) == R(c)

RaceCall(pc, seen, provider, pending, inactive, raised, value) ==
    [pc |-> pc, seen |-> seen, provider |-> provider, pending |-> pending,
     inactive |-> inactive, raised |-> raised, value |-> value]

RaceStart == RaceCall("query", None, "not called", None, FALSE, NoError, None)

\* pricing.py:92-100, the SELECT and the ttl check
RaceQuery(c) ==
    /\ px.phase = "race"
    /\ px.calls[c].pc = "query"
    /\ px' = [px EXCEPT !.calls[c] =
                 IF WithinTtl(px.table, RaceNow)
                 THEN [@ EXCEPT !.pc = "returned", !.seen = px.table,
                                !.value = Some(QuoteResult(RaceSymbol, px.table[1].price,
                                                           px.table[1].fetched_at,
                                                           FALSE, None))]
                 ELSE [@ EXCEPT !.pc = "fetch", !.seen = px.table]]
    /\ UNCHANGED <<assets, txs, outcome, reqs, rp, ls, dash>>

\* pricing.py:103, and 112-121 when the provider raises
RaceFetch(c) ==
    /\ px.phase = "race"
    /\ px.calls[c].pc = "fetch"
    /\ \E provider \in {"ok", "fails"} :
          px' = [px EXCEPT !.calls[c] =
                    IF provider = "fails"
                    THEN [@ EXCEPT !.pc = "returned", !.provider = provider,
                                   !.value = StaleFallback(RaceSymbol, px.calls[c].seen,
                                                           ProviderDown)]
                    ELSE [@ EXCEPT !.pc = "write", !.provider = provider]]
    /\ UNCHANGED <<assets, txs, outcome, reqs, rp, ls, dash>>

\* the flush failed: the session has rolled back and released the lock, the
\* added object is expunged and keeps its values, the loaded one is expired
\* and reading it (pricing.py:116) needs the session, which refuses
RaceFlushFailed(c, exc) ==
    [px EXCEPT !.lock = IF @ = c THEN 0 ELSE @,
               !.calls[c] =
                   IF px.calls[c].seen = None
                   THEN [@ EXCEPT !.pc = "returned", !.inactive = TRUE,
                                  !.value = StaleFallback(RaceSymbol,
                                                Some(QuoteCache(RacePrice(c), RaceNow)),
                                                exc)]
                   ELSE [@ EXCEPT !.pc = "returned", !.inactive = TRUE,
                                  !.raised = PendingRollbackError]]

\* pricing.py:104-111 when the write lock is free: the INSERT meets the
\* unique index on symbol if another request has committed a row meanwhile
RaceFlush(c) ==
    /\ px.phase = "race"
    /\ px.calls[c].pc = "write"
    /\ px.lock = 0
    /\ px' = IF px.calls[c].seen = None /\ px.table # None
             THEN RaceFlushFailed(c, IntegrityError)
             ELSE [px EXCEPT !.lock = c,
                             !.calls[c] =
                                 [@ EXCEPT !.pc = "returned",
                                           !.pending = Some(QuoteCache(RacePrice(c),
                                                                       RaceNow)),
                                           !.value = Some(QuoteResult(RaceSymbol,
                                                              RacePrice(c), RaceNow,
                                                              FALSE, None))]]
    /\ UNCHANGED <<assets, txs, outcome, reqs, rp, ls, dash>>

\* pricing.py:110 when the other request keeps the write lock past the busy
\* timeout
RaceFlushTimesOut(c) ==
    /\ px.phase = "race"
    /\ px.calls[c].pc = "write"
    /\ px.lock \notin {0, c}
    /\ px' = RaceFlushFailed(c, DatabaseLocked)
    /\ UNCHANGED <<assets, txs, outcome, reqs, rp, ls, dash>>

\* the end of the request: db.commit() writes what the session flushed and
\* releases the lock; on a session that waits for rollback() it raises and
\* get_db closes the session
RaceCommit(c) ==
    /\ px.phase = "race"
    /\ px.calls[c].pc = "returned"
    /\ px' = [px EXCEPT !.table = IF px.calls[c].pending # None /\ ~px.calls[c].inactive
                                  THEN px.calls[c].pending ELSE @,
                        !.lock = IF @ = c THEN 0 ELSE @,
                        !.calls[c] = [@ EXCEPT !.pc = "done"]]
    /\ UNCHANGED <<assets, txs, outcome, reqs, rp, ls, dash>>

InitRace ==
    /\ LedgerIdle
    /\ rp = ReplayIdle
    /\ ListIdle
    /\ DashIdle
    /\ \E table \in {None, Some(QuoteCache(R(MaxPrice + 1), 0)),
                     Some(QuoteCache(R(MaxPrice + 1), RaceNow))} :
          px = [phase |-> "race", table_before |-> table, table |-> table, lock |-> 0,
                calls |-> [c \in Callers |-> RaceStart]]

NextRace ==
    \E c \in Callers :
        \/ RaceQuery(c)
        \/ RaceFetch(c)
        \/ RaceFlush(c)
        \/ RaceFlushTimesOut(c)
        \/ RaceCommit(c)

SpecRace == InitRace /\ [][NextRace]_vars

\* both calls have returned and both found the entry absent or expired
BothMissed ==
    /\ px.phase = "race"
    /\ \A c \in Callers :
          /\ px.calls[c].pc \in {"returned", "done"}
          /\ ~WithinTtl(px.calls[c].seen, RaceNow)

\* a fresh price, the stale cached price, or unavailable
RaceAnswerAllowed(c) ==
    \/ px.calls[c].value = None
    \/ /\ px.calls[c].value # None
       /\ ~px.calls[c].value[1].stale
       /\ px.calls[c].value[1].price = RacePrice(c)
    \/ /\ px.calls[c].value # None
       /\ px.calls[c].value[1].stale
       /\ px.table_before # None
       /\ px.calls[c].value[1].price = px.table_before[1].price

\* C25: when two concurrent get_quote calls for one symbol both find the
\* entry absent or expired, neither raises, each returns a fresh price, the
\* stale cached price or unavailable, and once both requests are over the
\* entry, if any, is the old one or holds a price one of the calls fetched
C25_RacingCallsNeverRaise ==
    BothMissed =>
        /\ \A c \in Callers : px.calls[c].raised = NoError
        /\ \A c \in Callers : RaceAnswerAllowed(c)
        /\ (\A c \in Callers : px.calls[c].pc = "done") =>
              \/ px.table = px.table_before
              \/ \E c \in Callers :
                    px.calls[c].provider = "ok" /\ px.table[1].price = RacePrice(c)

(***************************************************************************)
(* The portfolio chart: compute_portfolio_series and the historical closes *)
(* it asks PricingService for.  Dates are day numbers, and the timestamps  *)
(* of this section count days too: a transaction of day d is stamped d.    *)
(***************************************************************************)
HistoricalPoint(date, close) == [date |-> date, close |-> close]

\* a historical call whose provider error reaches the caller
get_historical_daily_Propagates(provider, symbol, start, end) ==
    IF provider.raises THEN [raised |-> ProviderDown, value |-> <<>>]
    ELSE [raised |-> NoError, value |-> provider.points]

\* PricingService.get_historical_daily; provider says whether the provider's
\* call raises and which points it returns otherwise
get_historical_daily(provider, symbol, start, end) ==
    IF provider.raises THEN [raised |-> NoError, value |-> <<>>]
    ELSE [raised |-> NoError, value |-> provider.points]

_day_range(start, end) ==
    IF start > end THEN <<>> ELSE [idx \in 1..(end - start + 1) |-> start + idx - 1]

\* datetime.combine(day, datetime.max.time(), tzinfo=timezone.utc)
day_end(day) == day

RMax(x, y) == IF RLt(x, y) THEN y ELSE x

\* the BUY and SELL branches of the while loop of _market_quantity_by_day
ChartQuantityStep(qty, tx) ==
    IF _tx_type(tx) = BUY THEN RAdd(qty, RMax(_tx_quantity(tx), Zero))
    ELSE IF _tx_type(tx) = SELL
         THEN RMax(RSub(qty, RMax(_tx_quantity(tx), Zero)), Zero)
    ELSE qty

\* the for loop over days with its cursor into the ordered transactions:
\* out, from day number i on
RECURSIVE MarketQuantityLoop(_, _, _, _, _)
MarketQuantityLoop(ordered, days, i, tx_index, qty) ==
    IF i > Len(days) THEN <<>>
    ELSE IF tx_index <= Len(ordered) /\ _tx_timestamp(ordered[tx_index]) <= day_end(days[i])
    THEN MarketQuantityLoop(ordered, days, i, tx_index + 1,
                            ChartQuantityStep(qty, ordered[tx_index]))
    ELSE (days[i] :> qty) @@ MarketQuantityLoop(ordered, days, i + 1, tx_index, qty)

_market_quantity_by_day(transactions, days) ==
    MarketQuantityLoop(sort_transactions(transactions), days, 1, 1, Zero)

RECURSIVE ManualValueLoop(_, _, _, _, _)
ManualValueLoop(updates, days, i, idx, latest_value) ==
    IF i > Len(days) THEN <<>>
    ELSE IF idx <= Len(updates) /\ _tx_timestamp(updates[idx]) <= day_end(days[i])
    THEN ManualValueLoop(updates, days, i, idx + 1,
                         RMax(_tx_manual_value(updates[idx]), Zero))
    ELSE (days[i] :> latest_value) @@ ManualValueLoop(updates, days, i + 1, idx, latest_value)

_manual_value_by_day(transactions, days) ==
    ManualValueLoop(SelectSeq(sort_transactions(transactions),
                              LAMBDA tx : _tx_type(tx) = MANUAL_VALUE_UPDATE),
                    days, 1, 1, Zero)

\* the dict comprehension: the points of the range with a positive close, a
\* later point of a date replacing an earlier one
CloseByDay(history, start, end) ==
    [date \in {history[i].date : i \in {j \in 1..Len(history) :
                   /\ start <= history[j].date
                   /\ history[j].date <= end
                   /\ RGt(history[j].close, Zero)}} |->
        history[Max({j \in 1..Len(history) :
                        history[j].date = date /\ RGt(history[j].close, Zero)})].close]

\* rolling_close after the iteration of day number i: the close of that day
\* if it has one, or what the iteration before left
RECURSIVE RollingClose(_, _, _)
RollingClose(close_by_day, days, i) ==
    IF i = 0 THEN None
    ELSE IF days[i] \in DOMAIN close_by_day /\ RGt(close_by_day[days[i]], Zero)
    THEN Some(close_by_day[days[i]])
    ELSE RollingClose(close_by_day, days, i - 1)

\* a price taken from the close of the day alone
RollingPrice_DayOnly(close_by_day, days, i) ==
    IF days[i] \in DOMAIN close_by_day THEN close_by_day[days[i]] ELSE Zero

\* price = rolling_close if rolling_close is not None else 0.0
RollingPrice(close_by_day, days, i) ==
    IF RollingClose(close_by_day, days, i) # None
    THEN RollingClose(close_by_day, days, i)[1] ELSE Zero

\* what a MARKET asset adds to daily_totals, by day number; nothing when
\* the range has no usable close (the symbol is reported missing)
MarketDaily(qty_by_day, close_by_day, days) ==
    [i \in 1..Len(days) |->
        IF DOMAIN close_by_day = {} THEN Zero
        ELSE RMul(qty_by_day[days[i]], RollingPrice(close_by_day, days, i))]

\* what one non-archived asset adds to daily_totals, by day number
AssetDaily(asset, history, days, start, end) ==
    IF asset.asset_type = MARKET
    THEN MarketDaily(_market_quantity_by_day(asset.transactions, days),
                     CloseByDay(history, start, end), days)
    ELSE [i \in 1..Len(days) |-> _manual_value_by_day(asset.transactions, days)[days[i]]]

PortfolioSeriesResult(points, missing_symbols, error_message) ==
    [points |-> points, missing_symbols |-> missing_symbols,
     error_message |-> error_message]

\* an end that charts the totals whatever they are
SeriesFromTotals_FlatLine(days, totals, missing_symbols) ==
    PortfolioSeriesResult([i \in 1..Len(days) |->
                              [date |-> days[i], total_value_usd |-> totals[i]]],
                          missing_symbols, None)

\* the end of compute_portfolio_series, from daily_totals by day number
SeriesFromTotals(days, totals, missing_symbols) ==
    IF \A i \in 1..Len(days) : RLe(totals[i], Zero)
    THEN PortfolioSeriesResult(<<>>, missing_symbols,
             Some("No holdings data available for the selected range."))
    ELSE PortfolioSeriesResult([i \in 1..Len(days) |->
                                   [date |-> days[i], total_value_usd |-> totals[i]]],
                               missing_symbols, None)

\* the loop over the assets; histories holds what get_historical_daily
\* returned for each MARKET asset
SeriesFromAssets(live, histories, days, start, end) ==
    SeriesFromTotals(days,
        [i \in 1..Len(days) |->
            RSum([id \in {asset.id : asset \in live} |->
                     AssetDaily(LinkedAsset(live, id), histories[id], days, start, end)[i]])],
        {LinkedAsset(live, id).symbol : id \in {a.id : a \in {b \in live :
            b.asset_type = MARKET /\ DOMAIN CloseByDay(histories[b.id], start, end) = {}}}})

\* the historical calls of the loop, by asset id
HistoryCalls(live, provider, start, end) ==
    [id \in {asset.id : asset \in live} |->
        IF LinkedAsset(live, id).asset_type = MARKET
        THEN get_historical_daily(provider, LinkedAsset(live, id).symbol, start, end)
        ELSE [raised |-> NoError, value |-> <<>>]]

\* compute_portfolio_series over the assets of the portfolio
compute_portfolio_series(all_assets, provider, start, end) ==
    IF _day_range(start, end) = <<>>
    THEN [raised |-> NoError,
          value |-> PortfolioSeriesResult(<<>>, {},
                        Some("Invalid date range for portfolio chart."))]
    ELSE IF LiveAssets(all_assets) = {}
    THEN [raised |-> NoError,
          value |-> PortfolioSeriesResult(<<>>, {}, Some("No active assets to chart yet."))]
    ELSE IF \E id \in DOMAIN HistoryCalls(LiveAssets(all_assets), provider, start, end) :
               HistoryCalls(LiveAssets(all_assets), provider, start, end)[id].raised
                   # NoError
    THEN [raised |-> ProviderDown, value |-> None]
    ELSE [raised |-> NoError,
          value |-> SeriesFromAssets(LiveAssets(all_assets),
                        [id \in {asset.id : asset \in LiveAssets(all_assets)} |->
                            HistoryCalls(LiveAssets(all_assets), provider, start,
                                         end)[id].value],
                        _day_range(start, end), start, end)]

\* the BUY and SELL branches of the while loop of _market_state_by_day, on
\* the pair (qty, avg_cost)
ChartStateStep(state, tx) ==
    IF _tx_type(tx) = BUY /\ RGt(RMax(_tx_quantity(tx), Zero), Zero)
    THEN <<RAdd(state[1], RMax(_tx_quantity(tx), Zero)),
           IF RGt(RAdd(state[1], RMax(_tx_quantity(tx), Zero)), Zero)
           THEN RDiv(RAdd(RAdd(RMul(state[1], state[2]),
                               RMul(RMax(_tx_quantity(tx), Zero), _tx_price(tx))),
                          RMax(_tx_fees(tx), Zero)),
                     RAdd(state[1], RMax(_tx_quantity(tx), Zero)))
           ELSE Zero>>
    ELSE IF _tx_type(tx) = SELL /\ RGt(RMax(_tx_quantity(tx), Zero), Zero)
    THEN IF RLe(RSub(state[1], RMax(_tx_quantity(tx), Zero)), EpsR)
         THEN <<Zero, Zero>>
         ELSE <<RSub(state[1], RMax(_tx_quantity(tx), Zero)), state[2]>>
    ELSE state

RECURSIVE MarketStateLoop(_, _, _, _, _)
MarketStateLoop(ordered, days, i, tx_index, state) ==
    IF i > Len(days) THEN <<>>
    ELSE IF tx_index <= Len(ordered) /\ _tx_timestamp(ordered[tx_index]) <= day_end(days[i])
    THEN MarketStateLoop(ordered, days, i, tx_index + 1,
                         ChartStateStep(state, ordered[tx_index]))
    ELSE (days[i] :> state) @@ MarketStateLoop(ordered, days, i + 1, tx_index, state)

\* a replay that starts from nothing on the first day of the range
_market_state_by_day_FromStart(transactions, days) ==
    MarketStateLoop(SelectSeq(sort_transactions(transactions),
                              LAMBDA tx : _tx_timestamp(tx) >= days[1]),
                    days, 1, 1, <<Zero, Zero>>)

_market_state_by_day(transactions, days) ==
    MarketStateLoop(sort_transactions(transactions), days, 1, 1, <<Zero, Zero>>)

\* the BUY branch of the while loop of _manual_invested_by_day
ChartInvestedStep(invested, tx) ==
    IF _tx_type(tx) = BUY
    THEN RAdd(invested, RAdd(RMul(RMax(_tx_quantity(tx), Zero), _tx_price(tx)),
                             RMax(_tx_fees(tx), Zero)))
    ELSE invested

RECURSIVE ManualInvestedLoop(_, _, _, _, _)
ManualInvestedLoop(ordered, days, i, tx_index, invested) ==
    IF i > Len(days) THEN <<>>
    ELSE IF tx_index <= Len(ordered) /\ _tx_timestamp(ordered[tx_index]) <= day_end(days[i])
    THEN ManualInvestedLoop(ordered, days, i, tx_index + 1,
                            ChartInvestedStep(invested, ordered[tx_index]))
    ELSE (days[i] :> invested) @@ ManualInvestedLoop(ordered, days, i + 1, tx_index, invested)

_manual_invested_by_day(transactions, days) ==
    ManualInvestedLoop(sort_transactions(transactions), days, 1, 1, Zero)

\* the series of a MARKET asset with a usable close, by day number
MarketPnl(state_by_day, close_by_day, days) ==
    [i \in 1..Len(days) |->
        IF RGt(state_by_day[days[i]][1], Zero)
        THEN RMul(RSub(RollingPrice(close_by_day, days, i), state_by_day[days[i]][2]),
                  state_by_day[days[i]][1])
        ELSE Zero]

\* the series of a MANUAL asset, by day number
ManualPnl(manual_values, invested_by_day, days) ==
    [i \in 1..Len(days) |->
        IF RGt(invested_by_day[days[i]], Zero)
        THEN RSub(manual_values[days[i]], invested_by_day[days[i]])
        ELSE Zero]

\* pnl_by_asset_id after the loop over the assets: no entry for a MARKET
\* asset without a usable close in the range
PnlByAssetId(live, histories, days, start, end) ==
    [id \in {asset.id : asset \in {a \in live :
                a.asset_type = MARKET => DOMAIN CloseByDay(histories[a.id], start, end) # {}}} |->
        IF LinkedAsset(live, id).asset_type = MARKET
        THEN MarketPnl(_market_state_by_day(LinkedAsset(live, id).transactions, days),
                       CloseByDay(histories[id], start, end), days)
        ELSE ManualPnl(_manual_value_by_day(LinkedAsset(live, id).transactions, days),
                       _manual_invested_by_day(LinkedAsset(live, id).transactions, days),
                       days)]

\* the links of a basket that count: to a non-archived MARKET asset
OverlayLinks(basket, all_assets) ==
    {asset_id \in basket.links : \E asset \in all_assets :
        /\ asset.id = asset_id
        /\ asset.asset_type = MARKET
        /\ ~asset.is_archived}

\* basket_member_asset_ids
OverlayMemberAssetIds(baskets, all_assets) ==
    UNION {OverlayLinks(basket, all_assets) : basket \in baskets}

\* member_ids of a basket
OverlayMemberIds(basket, all_assets, pnl_by_asset_id) ==
    OverlayLinks(basket, all_assets) \cap DOMAIN pnl_by_asset_id

\* merged: the members' series added up day by day
MergedPnl(member_ids, pnl_by_asset_id, days) ==
    [i \in 1..Len(days) |-> RSum([id \in member_ids |-> pnl_by_asset_id[id][i]])]

\* what the loop over the baskets stores under a label; baskets of one name
\* are stored in the order the query returns them, the last one staying
BasketEntries(baskets, all_assets, pnl_by_asset_id, days) ==
    [label \in {basket.name : basket \in {b \in baskets :
                   OverlayMemberIds(b, all_assets, pnl_by_asset_id) # {}}} |->
        MergedPnl(OverlayMemberIds(
                      CHOOSE b \in baskets :
                          /\ b.name = label
                          /\ OverlayMemberIds(b, all_assets, pnl_by_asset_id) # {}
                          /\ \A other \in baskets :
                                (/\ other.name = label
                                 /\ OverlayMemberIds(other, all_assets, pnl_by_asset_id) # {})
                                    => other.id <= b.id,
                      all_assets, pnl_by_asset_id),
                  pnl_by_asset_id, days)]

\* what a loop over the assets that keeps a label already taken would store
AssetEntries_KeepMembers(live, member_asset_ids, pnl_by_asset_id) ==
    [label \in {LinkedAsset(live, id).symbol : id \in DOMAIN pnl_by_asset_id} |->
        pnl_by_asset_id[Max({id \in DOMAIN pnl_by_asset_id :
                                LinkedAsset(live, id).symbol = label})]]

\* what the loop over the assets stores under a label: the series of the
\* assets that are no basket member, the last asset of a symbol staying
AssetEntries(live, member_asset_ids, pnl_by_asset_id) ==
    [label \in {LinkedAsset(live, id).symbol :
                   id \in DOMAIN pnl_by_asset_id \ member_asset_ids} |->
        pnl_by_asset_id[Max({id \in DOMAIN pnl_by_asset_id \ member_asset_ids :
                                LinkedAsset(live, id).symbol = label})]]

OverlayPnlSeriesResult(dates, series_by_label, missing_symbols, error_message) ==
    [dates |-> dates, series_by_label |-> series_by_label,
     missing_symbols |-> missing_symbols, error_message |-> error_message]

\* the end of compute_overlay_pnl_series: overlay_series is filled by the
\* baskets first, and an asset's entry replaces a basket's of the same label
OverlayFromPnl(live, baskets, all_assets, pnl_by_asset_id, days, missing_symbols) ==
    IF DOMAIN (AssetEntries(live, OverlayMemberAssetIds(baskets, all_assets),
                            pnl_by_asset_id)
               @@ BasketEntries(baskets, all_assets, pnl_by_asset_id, days)) = {}
    THEN OverlayPnlSeriesResult(<<>>, <<>>, missing_symbols,
             Some("No PnL data available for the selected range."))
    ELSE OverlayPnlSeriesResult(days,
             AssetEntries(live, OverlayMemberAssetIds(baskets, all_assets), pnl_by_asset_id)
                 @@ BasketEntries(baskets, all_assets, pnl_by_asset_id, days),
             missing_symbols, None)

\* compute_overlay_pnl_series over the assets and baskets of the portfolio
compute_overlay_pnl_series(all_assets, baskets, provider, start, end) ==
    IF _day_range(start, end) = <<>>
    THEN [raised |-> NoError,
          value |-> OverlayPnlSeriesResult(<<>>, <<>>, {},
                        Some("Invalid date range for PnL chart."))]
    ELSE IF LiveAssets(all_assets) = {}
    THEN [raised |-> NoError,
          value |-> OverlayPnlSeriesResult(<<>>, <<>>, {},
                        Some("No active assets to chart yet."))]
    ELSE IF \E id \in DOMAIN HistoryCalls(LiveAssets(all_assets), provider, start, end) :
               HistoryCalls(LiveAssets(all_assets), provider, start, end)[id].raised
                   # NoError
    THEN [raised |-> ProviderDown, value |-> None]
    ELSE [raised |-> NoError,
          value |-> OverlayFromPnl(LiveAssets(all_assets), baskets, all_assets,
                        PnlByAssetId(LiveAssets(all_assets),
                            [id \in {asset.id : asset \in LiveAssets(all_assets)} |->
                                HistoryCalls(LiveAssets(all_assets), provider, start,
                                             end)[id].value],
                            _day_range(start, end), start, end),
                        _day_range(start, end),
                        {LinkedAsset(all_assets, id).symbol :
                            id \in {a.id : a \in {b \in LiveAssets(all_assets) :
                                /\ b.asset_type = MARKET
                                /\ DOMAIN CloseByDay(
                                       HistoryCalls(LiveAssets(all_assets), provider,
                                                    start, end)[b.id].value,
                                       start, end) = {}}}})]

\* the portfolios the chart is drawn for.  Asset 1 is a MARKET asset that
\* bought MaxQty on day 1 or 2 and may have sold all or all but one of it
\* since; asset 2, if any, is a MANUAL asset valued on day 2 and revalued to
\* nothing on the last day, an archived MARKET asset, or a second MARKET
\* asset of the same symbol.
ChartSymbol == "AAA"

ChartTx(id, type, day, quantity) == Tx(id, type, Aware(day, 0), quantity, One, Zero, None, None)

ChartValue(id, day, value) ==
    Tx(id, MANUAL_VALUE_UPDATE, Aware(day, 0), None, None, Zero, value, None)

MarketHoldings ==
    {<<ChartTx(1, BUY, d, R(MaxQty))>> : d \in {1, 2}}
    \cup {<<ChartTx(1, BUY, d, R(MaxQty)), ChartTx(2, SELL, e, q)>> :
             d \in {1, 2}, e \in {2, MaxDays}, q \in {R(MaxQty - 1), R(MaxQty)}}

ManualHolding ==
    <<ChartTx(3, BUY, 1, One), ChartValue(4, 2, R(MaxPrice)), ChartValue(5, MaxDays, Zero)>>

ChartAsset(id, asset_type, is_archived, transactions) ==
    [id |-> id, symbol |-> IF asset_type = MARKET THEN ChartSymbol ELSE "HOUSE",
     asset_type |-> asset_type, is_archived |-> is_archived,
     transactions |-> transactions]

ChartShapes == {"empty", "archived", "market", "manual", "mixed", "retired", "twice"}

ChartAssets(shape, holding) ==
    CASE shape = "empty" -> {}
      [] shape = "archived" -> {ChartAsset(1, MARKET, TRUE, holding)}
      [] shape = "market" -> {ChartAsset(1, MARKET, FALSE, holding)}
      [] shape = "manual" -> {ChartAsset(2, MANUAL, FALSE, ManualHolding)}
      [] shape = "mixed" -> {ChartAsset(1, MARKET, FALSE, holding),
                             ChartAsset(2, MANUAL, FALSE, ManualHolding)}
      [] shape = "retired" -> {ChartAsset(1, MARKET, FALSE, holding),
                               ChartAsset(2, MARKET, TRUE, holding)}
      [] shape = "twice" -> {ChartAsset(1, MARKET, FALSE, holding),
                             ChartAsset(2, MARKET, FALSE, holding)}

\* what the provider's historical call does: it raises, or it returns no
\* point, one point, or a point and a later one on the last day; a close
\* may be 0
ChartProviders ==
    {[raises |-> TRUE, points |-> <<>>], [raises |-> FALSE, points |-> <<>>]}
    \cup {[raises |-> FALSE, points |-> <<HistoricalPoint(d, c)>>] :
             d \in 1..MaxDays, c \in {Zero, One, R(MaxPrice)}}
    \cup {[raises |-> FALSE,
           points |-> <<HistoricalPoint(d, c), HistoricalPoint(MaxDays, c2)>>] :
             d \in 1..(MaxDays - 1), c \in {Zero, One, R(MaxPrice)}, c2 \in {Zero, One}}

ChartBasket(id, name, links) == [id |-> id, name |-> name, links |-> links]

\* the baskets of the portfolio: none, one of both assets, one of asset 1
\* that is named like the MANUAL asset, or two that share asset 1, and an
\* empty one beside a basket of asset 1
ChartBaskets ==
    {{},
     {ChartBasket(1, "Basket 1", {1, 2})},
     {ChartBasket(1, "HOUSE", {1})},
     {ChartBasket(1, "Basket 1", {1}), ChartBasket(2, "Basket 2", {1, 2})},
     {ChartBasket(1, "Basket 1", {1}), ChartBasket(2, "Basket 2", {})}}

ChartRanges ==
    {r \in (1..MaxDays) \X (0..MaxDays) : r[2] \in {r[1] - 1, r[1], MaxDays}}

\* the dashboard asks for the chart of a range
portfolio_series ==
    /\ ls.phase = "chart"
    /\ ls' = [ls EXCEPT !.phase = "series",
                        !.result = compute_portfolio_series(ls.assets, ls.provider,
                                                            ls.start, ls.end)]
    /\ UNCHANGED <<assets, txs, outcome, reqs, rp, dash, px>>

\* the dashboard asks for the P&L overlay of a range
overlay_pnl_series ==
    /\ ls.phase = "chart"
    /\ ls' = [ls EXCEPT !.phase = "overlay",
                        !.result = compute_overlay_pnl_series(ls.assets, ls.baskets,
                                       ls.provider, ls.start, ls.end)]
    /\ UNCHANGED <<assets, txs, outcome, reqs, rp, dash, px>>

CallHistoricalDaily ==
    /\ ls.phase = "history"
    /\ ls' = [ls EXCEPT !.phase = "points",
                        !.result = get_historical_daily(ls.provider, ChartSymbol,
                                                        ls.start, ls.end)]
    /\ UNCHANGED <<assets, txs, outcome, reqs, rp, dash, px>>

InitSeries ==
    /\ LedgerIdle
    /\ rp = ReplayIdle
    /\ DashIdle
    /\ PricingIdle
    /\ \E provider \in ChartProviders, range \in ChartRanges :
          \/ \E shape \in ChartShapes, holding \in MarketHoldings, baskets \in ChartBaskets :
                ls = [phase |-> "chart", assets |-> ChartAssets(shape, holding),
                      baskets |-> baskets,
                      provider |-> provider, start |-> range[1], end |-> range[2],
                      result |-> None]
          \/ ls = [phase |-> "history", provider |-> provider, start |-> range[1],
                   end |-> range[2], result |-> None]

NextSeries == portfolio_series \/ overlay_pnl_series \/ CallHistoricalDaily

SpecSeries == InitSeries /\ [][NextSeries]_vars

\* C26: get_historical_daily never raises; it returns an empty list when the
\* provider's call fails and the provider's points unchanged otherwise
C26_HistoryNeverRaises ==
    ls.phase = "points" =>
        /\ ls.result.raised = NoError
        /\ ls.result.value = IF ls.provider.raises THEN <<>> ELSE ls.provider.points

C26_Witness ==
    /\ ls.phase = "points"
    /\ ls.provider.raises
    /\ ls.result.raised = NoError
    /\ ls.result.value = <<>>

SeriesDone == ls.phase = "series"
ChartLive == {asset \in ls.assets : ~asset.is_archived}
ChartDays == ls.start..ls.end

\* the transactions of an asset up to the end of a day
TxsThrough(asset, day) ==
    SelectSeq(sort_transactions(asset.transactions), LAMBDA tx : _tx_timestamp(tx) <= day)

\* the quantity the position replay reports at the end of a day
PositionQuantity(asset, day) == compute_market_position(TxsThrough(asset, day)).quantity

\* the quantity bought less the quantity sold, a SELL taking at most what is
\* held, without the rounding to zero of the position replay
RECURSIVE HeldAfter(_, _)
HeldAfter(ordered, n) ==
    IF n = 0 THEN Zero
    ELSE IF ordered[n].type = BUY THEN RAdd(HeldAfter(ordered, n - 1), ordered[n].quantity)
    ELSE IF ordered[n].type = SELL
         THEN IF RGt(ordered[n].quantity, HeldAfter(ordered, n - 1)) THEN Zero
              ELSE RSub(HeldAfter(ordered, n - 1), ordered[n].quantity)
    ELSE HeldAfter(ordered, n - 1)

HeldQuantity(asset, day) == HeldAfter(TxsThrough(asset, day), Len(TxsThrough(asset, day)))

\* the dates of the range up to a day for which the provider gave a positive close
KnownDates(day) ==
    {ls.provider.points[i].date : i \in {j \in 1..Len(ls.provider.points) :
        /\ ~ls.provider.raises
        /\ ls.start <= ls.provider.points[j].date
        /\ ls.provider.points[j].date <= day
        /\ RGt(ls.provider.points[j].close, Zero)}}

\* the most recent positive close on or before a day within the range, 0
\* before the first
FilledClose(day) ==
    IF KnownDates(day) = {} THEN Zero
    ELSE (CHOOSE point \in {ls.provider.points[i] : i \in 1..Len(ls.provider.points)} :
             point.date = Max(KnownDates(day)) /\ RGt(point.close, Zero)).close

LatestManualValue(asset, day) == compute_manual_position(TxsThrough(asset, day)).current_value

\* total(d) of the claim, with the held quantity of the position replay
\* (rounded) or the plain one
ExpectedTotal(day, rounded) ==
    RSum([id \in {asset.id : asset \in ChartLive} |->
             IF LinkedAsset(ChartLive, id).asset_type = MARKET
             THEN RMul(IF rounded THEN PositionQuantity(LinkedAsset(ChartLive, id), day)
                       ELSE HeldQuantity(LinkedAsset(ChartLive, id), day),
                       FilledClose(day))
             ELSE LatestManualValue(LinkedAsset(ChartLive, id), day)])

PointOf(day) == ls.result.value.points[day - ls.start + 1]

LifeSymbols == {"AAA", "BBB"}
LifeIds == {1, 2}
GroupIds == {1, 2}

\* create_asset forms: a MARKET asset without or with initial shares, and a
\* MANUAL asset with its initial value
LifeAssetForms ==
    {AssetForm(MARKET, Empty, Empty, Empty, Empty, Empty),
     AssetForm(MARKET, One, One, Empty, Empty, Empty),
     AssetForm(MANUAL, Empty, Empty, Empty, One, Empty)}

EditForm(name, symbol, asset_type, group_id, is_archived) ==
    [name |-> name, symbol |-> symbol, asset_type |-> asset_type, group_id |-> group_id,
     is_archived |-> is_archived]

\* the forms a client may post to asset_edit_submit: the well-formed ones,
\* and one for each field the handler refuses
EditForms ==
    {EditForm("Renamed", symbol, asset_type, "2", is_archived) :
        symbol \in {"", "aaa ", "BBB"}, asset_type \in AssetType, is_archived \in BOOLEAN}
    \cup {EditForm("", "", MARKET, "2", FALSE), EditForm("Renamed", "", MARKET, "", FALSE),
          EditForm("Renamed", "", MARKET, "9", FALSE),
          EditForm("Renamed", "", "bond", "2", FALSE)}

\* str(...).strip().upper() on the symbols of the forms
StripUpper(raw) == IF raw = "aaa " THEN "AAA" ELSE raw

\* int(group_id_raw) on the group fields of the forms; "" raises ValueError
IntOf(raw) == IF raw = "2" THEN 2 ELSE 9

_tx_count(asset_id) == Cardinality({row \in txs : row.asset_id = asset_id})

LifeDone(op, asset_id, result) ==
    outcome' = [op |-> op, result |-> result, asset_id |-> asset_id]

LifeRejected(op, asset_id, message) ==
    /\ LifeDone(op, asset_id, message)
    /\ UNCHANGED <<assets, txs>>

\* a check that looks at the symbol alone
SymbolOrTypeChanged_SymbolOnly(asset, symbol, asset_type_raw) == symbol # asset.symbol

\* symbol != asset.symbol or asset_type_raw != asset.asset_type.value
SymbolOrTypeChanged(asset, symbol, asset_type_raw) ==
    symbol # asset.symbol \/ asset_type_raw # asset.asset_type

\* another non-archived asset of the portfolio with this symbol
Duplicate(asset_id, symbol) ==
    \E other \in DOMAIN assets \ {asset_id} :
        assets[other].symbol = symbol /\ ~assets[other].is_archived

\* the last lines of asset_edit_submit: the fields assigned, then the commit
EditApplied(asset_id, form, symbol, with_symbol_and_type) ==
    /\ assets' = [assets EXCEPT ![asset_id] =
                     [symbol |-> IF with_symbol_and_type THEN symbol ELSE @.symbol,
                      asset_type |-> IF with_symbol_and_type THEN form.asset_type
                                     ELSE @.asset_type,
                      name |-> form.name, group_id |-> IntOf(form.group_id),
                      is_archived |-> form.is_archived]]
    /\ UNCHANGED txs
    /\ LifeDone("asset_edit_submit", asset_id, "accepted")

\* the checks of asset_edit_submit once the asset is loaded; symbol is the
\* submitted symbol, or that of the asset when the field is blank
EditLoaded(asset_id, form, symbol) ==
    IF form.name = ""
    THEN LifeRejected("asset_edit_submit", asset_id, "Name is required")
    ELSE IF form.group_id = ""
    THEN LifeRejected("asset_edit_submit", asset_id, "Group is required")
    ELSE IF IntOf(form.group_id) \notin GroupIds
    THEN LifeRejected("asset_edit_submit", asset_id, "Invalid group")
    ELSE IF form.asset_type \notin AssetType
    THEN LifeRejected("asset_edit_submit", asset_id, "Invalid asset type")
    ELSE IF _tx_count(asset_id) > 0
    THEN IF SymbolOrTypeChanged(assets[asset_id], symbol, form.asset_type)
         THEN LifeRejected("asset_edit_submit", asset_id,
                           "Symbol and type cannot be changed after transactions exist")
         ELSE EditApplied(asset_id, form, symbol, FALSE)
    ELSE IF Duplicate(asset_id, symbol)
    THEN LifeRejected("asset_edit_submit", asset_id,
                      "Active asset with symbol already exists")
    ELSE EditApplied(asset_id, form, symbol, TRUE)

asset_edit_submit(asset_id, form) ==
    /\ IF asset_id \notin DOMAIN assets
       THEN LifeRejected("asset_edit_submit", asset_id, "Asset not found")
       ELSE EditLoaded(asset_id, form,
                       IF StripUpper(form.symbol) = "" THEN assets[asset_id].symbol
                       ELSE StripUpper(form.symbol))
    /\ UNCHANGED <<reqs, rp, ls, dash, px>>

\* a delete that does not look at the transactions: the rows of the asset
\* go with it
delete_asset_Unguarded(asset_id) ==
    /\ IF asset_id \notin DOMAIN assets
       THEN LifeRejected("delete_asset", asset_id, "Asset not found")
       ELSE /\ assets' = [a \in DOMAIN assets \ {asset_id} |-> assets[a]]
            /\ txs' = {row \in txs : row.asset_id # asset_id}
            /\ LifeDone("delete_asset", asset_id, "accepted")
    /\ UNCHANGED <<reqs, rp, ls, dash, px>>

delete_asset(asset_id) ==
    /\ IF asset_id \notin DOMAIN assets
       THEN LifeRejected("delete_asset", asset_id, "Asset not found")
       ELSE IF _tx_count(asset_id) > 0
       THEN LifeRejected("delete_asset", asset_id,
                         "Cannot delete asset with transactions. Archive it instead.")
       ELSE /\ assets' = [a \in DOMAIN assets \ {asset_id} |-> assets[a]]
            /\ txs' = {row \in txs : row.asset_id # asset_id}
            /\ LifeDone("delete_asset", asset_id, "accepted")
    /\ UNCHANGED <<reqs, rp, ls, dash, px>>

archive_asset(asset_id) ==
    /\ IF asset_id \notin DOMAIN assets
       THEN LifeRejected("archive_asset", asset_id, "Asset not found")
       ELSE /\ assets' = [assets EXCEPT ![asset_id].is_archived = TRUE]
            /\ UNCHANGED txs
            /\ LifeDone("archive_asset", asset_id, "accepted")
    /\ UNCHANGED <<reqs, rp, ls, dash, px>>

LifeCreate ==
    /\ NextAssetId \in LifeIds
    /\ \E symbol \in LifeSymbols, form \in LifeAssetForms : create_asset(symbol, form, 1)
LifeEdit == \E asset_id \in LifeIds, form \in EditForms : asset_edit_submit(asset_id, form)
LifeArchive == \E asset_id \in LifeIds : archive_asset(asset_id)
LifeDelete == \E asset_id \in LifeIds : delete_asset(asset_id)

InitAssets ==
    /\ LedgerIdle
    /\ rp = ReplayIdle
    /\ ListIdle
    /\ DashIdle
    /\ PricingIdle

NextAssets == LifeCreate \/ LifeEdit \/ LifeArchive \/ LifeDelete

SpecAssets == InitAssets /\ [][NextAssets]_vars

\* C27: whatever assets were created, edited, archived and deleted, no two
\* non-archived assets have the same symbol
C27_ActiveSymbolsUnique ==
    \A a, b \in DOMAIN assets :
        (a # b /\ ~assets[a].is_archived /\ ~assets[b].is_archived) =>
            assets[a].symbol # assets[b].symbol

\* C28: delete_asset removes the asset exactly when it has no transaction;
\* on an asset with a transaction it is rejected and leaves the asset and
\* its transactions as they were
C28_DeleteOnlyWithoutTransactions ==
    [][\A asset_id \in DOMAIN assets :
          (outcome'.op = "delete_asset" /\ delete_asset(asset_id)) =>
             IF _tx_count(asset_id) = 0
             THEN /\ asset_id \notin DOMAIN assets'
                  /\ \A other \in DOMAIN assets \ {asset_id} :
                        other \in DOMAIN assets' /\ assets'[other] = assets[other]
                  /\ txs' = txs
             ELSE /\ outcome'.result # "accepted"
                  /\ assets' = assets
                  /\ txs' = txs]_vars

C28_Witness ==
    /\ outcome.op = "delete_asset"
    /\ outcome.result = "Cannot delete asset with transactions. Archive it instead."
    /\ outcome.asset_id \in DOMAIN assets
    /\ \E row \in txs : row.asset_id = outcome.asset_id
    /\ \E other \in LifeIds : other \notin DOMAIN assets

\* C29: on an asset with a transaction an edit never changes symbol or type:
\* an edit with another symbol or type is rejected and changes nothing, and
\* a well-formed edit with the same symbol and type sets name, group and
\* archived flag
C29_SymbolAndTypeFixedOnceTraded ==
    [][\A asset_id \in DOMAIN assets, form \in EditForms :
          (/\ outcome'.op = "asset_edit_submit"
           /\ _tx_count(asset_id) > 0
           /\ asset_edit_submit(asset_id, form)) =>
             /\ assets'[asset_id].symbol = assets[asset_id].symbol
             /\ assets'[asset_id].asset_type = assets[asset_id].asset_type
             /\ txs' = txs
             /\ IF \/ StripUpper(form.symbol) \notin {"", assets[asset_id].symbol}
                   \/ form.asset_type # assets[asset_id].asset_type
                THEN outcome'.result # "accepted" /\ assets' = assets
                ELSE (form.name # "" /\ form.group_id = "2") =>
                        /\ outcome'.result = "accepted"
                        /\ assets'[asset_id].name = form.name
                        /\ assets'[asset_id].group_id = 2
                        /\ assets'[asset_id].is_archived = form.is_archived]_vars

C29_Witness ==
    /\ outcome.op = "asset_edit_submit"
    /\ outcome.result = "accepted"
    /\ outcome.asset_id \in DOMAIN assets
    /\ \E row \in txs : row.asset_id = outcome.asset_id
    /\ assets[outcome.asset_id].name = "Renamed"
    /\ assets[outcome.asset_id].group_id = 2
    /\ assets[outcome.asset_id].is_archived
(***************************************************************************)
(* The shape of the portfolio chart's answer.                              *)
(***************************************************************************)
NoDataMessages ==
    {"Invalid date range for portfolio chart.", "No active assets to chart yet.",
     "No holdings data available for the selected range."}

\* C31: when no day of the range has a positive total the series has no
\* point and one of the no-data messages (the holdings one when the range
\* has days and the portfolio a live asset); otherwise it has exactly one
\* point for each day from start to end, in ascending order, and no message
C31_NoDataOrOnePointPerDay ==
    SeriesDone =>
        /\ ls.result.raised = NoError
        /\ IF \A day \in ChartDays : RLe(ExpectedTotal(day, FALSE), Zero)
           THEN /\ ls.result.value.points = <<>>
                /\ ls.result.value.error_message # None
                /\ ls.result.value.error_message[1] \in NoDataMessages
                /\ (ChartDays # {} /\ ChartLive # {}) =>
                      ls.result.value.error_message
                          = Some("No holdings data available for the selected range.")
           ELSE /\ Len(ls.result.value.points) = ls.end - ls.start + 1
                /\ \A i \in 1..Len(ls.result.value.points) :
                      ls.result.value.points[i].date = ls.start + i - 1
                /\ ls.result.value.error_message = None

\* a held MARKET asset whose symbol has no close in a range of several days
C31_Witness ==
    /\ SeriesDone
    /\ ls.end > ls.start
    /\ \E asset \in ChartLive :
          asset.asset_type = MARKET /\ RGt(HeldQuantity(asset, ls.end), Zero)
    /\ \A day \in ChartDays : RLe(ExpectedTotal(day, FALSE), Zero)
    /\ ls.result.value.points = <<>>
    /\ ls.result.value.error_message
           = Some("No holdings data available for the selected range.")
(***************************************************************************)
(* The P&L overlay: which series compute_overlay_pnl_series returns.       *)
(***************************************************************************)
OverlayDone == ls.phase = "overlay"

\* what the provider's historical call gave for the one MARKET symbol
ChartHistory == IF ls.provider.raises THEN <<>> ELSE ls.provider.points

\* the daily P&L of the non-archived assets that have P&L data
ChartPnl ==
    PnlByAssetId(ChartLive, [id \in {asset.id : asset \in ChartLive} |-> ChartHistory],
                 _day_range(ls.start, ls.end), ls.start, ls.end)

\* the members of a basket: its non-archived MARKET assets
ChartMembers(basket) ==
    {asset.id : asset \in {a \in ChartLive : a.asset_type = MARKET /\ a.id \in basket.links}}

ChartMemberIds == UNION {ChartMembers(basket) : basket \in ls.baskets}

\* the non-archived assets with P&L data that are in no basket
Standalone == {asset \in ChartLive : asset.id \in DOMAIN ChartPnl \ ChartMemberIds}

\* the baskets with a member that has P&L data
ChartedBaskets == {basket \in ls.baskets : ChartMembers(basket) \cap DOMAIN ChartPnl # {}}

SeriesByLabel == ls.result.value.series_by_label

\* C32 as stated: the overlay has the series of each standalone asset under
\* its symbol, the day-by-day sum of the members' P&L of each basket under
\* the basket's name, and no other series
C32_OneSeriesPerStandaloneAndBasket ==
    (OverlayDone /\ ls.start <= ls.end /\ ChartLive # {}) =>
        /\ ls.result.raised = NoError
        /\ \A asset \in Standalone :
              /\ asset.symbol \in DOMAIN SeriesByLabel
              /\ SeriesByLabel[asset.symbol] = ChartPnl[asset.id]
        /\ \A basket \in ChartedBaskets :
              /\ basket.name \in DOMAIN SeriesByLabel
              /\ SeriesByLabel[basket.name]
                     = [i \in 1..(ls.end - ls.start + 1) |->
                           RSum([id \in ChartMembers(basket) \cap DOMAIN ChartPnl |->
                                    ChartPnl[id][i]])]
        /\ DOMAIN SeriesByLabel
               = {asset.symbol : asset \in Standalone}
                 \cup {basket.name : basket \in ChartedBaskets}
(***************************************************************************)
(* The basket index chart: compute_basket_series over the links of one     *)
(* basket.  A link is written as the asset it points to.                   *)
(***************************************************************************)
_basket_member_quantity(asset) ==
    IF asset.asset_type # MARKET THEN Zero
    ELSE IF asset.is_archived THEN Zero
    ELSE IF asset.transactions = <<>> THEN Zero
    ELSE IF compute_market_position(asset.transactions).raised # NoError THEN Zero
    ELSE RMax(compute_market_position(asset.transactions).quantity, Zero)

\* the links the index is built from when the held quantity is not looked at
PositiveLinks_AllMarket(market_links) == market_links

\* positive_links: the links with a positive held quantity
PositiveLinks(market_links) ==
    {link \in market_links : RGt(_basket_member_quantity(link), Zero)}

\* weights that give every link the same share
_normalized_basket_weights_Equal(market_links) ==
    [id \in {link.id : link \in market_links} |-> RDiv(One, R(Cardinality(market_links)))]

\* _normalized_basket_weights, by asset id; the ValueError when the total is
\* not positive is written as no weights at all
_normalized_basket_weights(market_links) ==
    IF RLe(RSum([id \in {link.id : link \in market_links} |->
                    RMax(_basket_member_quantity(LinkedAsset(market_links, id)), Zero)]),
           Zero)
    THEN <<>>
    ELSE [id \in {link.id : link \in market_links} |->
             RDiv(RMax(_basket_member_quantity(LinkedAsset(market_links, id)), Zero),
                  RSum([other \in {link.id : link \in market_links} |->
                           RMax(_basket_member_quantity(LinkedAsset(market_links, other)),
                                Zero)]))]

BasketSeriesResult(points, missing_symbols, error_message) ==
    [points |-> points, missing_symbols |-> missing_symbols,
     error_message |-> error_message]

\* sorted(): the symbols of the model in their alphabetical order
SortedSymbols(symbols) == SelectSeq(<<"AAA", "BBB">>, LAMBDA symbol : symbol \in symbols)

\* ", ".join(...)
RECURSIVE JoinSymbols(_)
JoinSymbols(symbols) ==
    IF symbols = <<>> THEN ""
    ELSE IF Len(symbols) = 1 THEN symbols[1]
    ELSE symbols[1] \o ", " \o JoinSymbols(Tail(symbols))

\* sorted(common_dates)
SortedDates(dates) ==
    [i \in 1..Cardinality(dates) |->
        CHOOSE day \in dates : Cardinality({other \in dates : other < day}) = i - 1]

\* series_by_asset_id of the links that have a usable close
SeriesByAssetId(positive_links, histories, start, end) ==
    [id \in {link.id : link \in {l \in positive_links :
                DOMAIN CloseByDay(histories[l.symbol], start, end) # {}}} |->
        CloseByDay(histories[LinkedAsset(positive_links, id).symbol], start, end)]

\* common_dates: the dates every series has
CommonDates(series_by_asset_id) ==
    {day \in UNION {DOMAIN series_by_asset_id[id] : id \in DOMAIN series_by_asset_id} :
        \A id \in DOMAIN series_by_asset_id : day \in DOMAIN series_by_asset_id[id]}

\* the links whose close on the first common date is not positive
InvalidBaselines(positive_links, series_by_asset_id, start_date) ==
    {link \in positive_links : RLe(series_by_asset_id[link.id][start_date], Zero)}

\* the last loop: the weighted member indexes of each common date, added up
CompositePoints(positive_links, weights, series_by_asset_id, ordered_dates) ==
    [i \in 1..Len(ordered_dates) |->
        [date |-> ordered_dates[i],
         value |-> RSum([id \in {link.id : link \in positive_links} |->
                      RMul(weights[id],
                           RMul(R(100), RDiv(series_by_asset_id[id][ordered_dates[i]],
                                             series_by_asset_id[id][ordered_dates[1]])))])]]

\* an index of the members that have data, the others left out
BasketSeriesFrom_SkipsMissing(positive_links, series_by_asset_id) ==
    IF DOMAIN series_by_asset_id = {}
    THEN BasketSeriesResult(<<>>, <<>>, Some("No historical data available."))
    ELSE IF CommonDates(series_by_asset_id) = {}
    THEN BasketSeriesResult(<<>>, <<>>,
             Some("No overlapping historical dates across basket members."))
    ELSE BasketSeriesResult(
             CompositePoints({link \in positive_links : link.id \in DOMAIN series_by_asset_id},
                             _normalized_basket_weights(positive_links),
                             series_by_asset_id,
                             SortedDates(CommonDates(series_by_asset_id))),
             <<>>, None)

\* compute_basket_series from the series on: the missing members, the
\* common dates, the baselines and the points
BasketSeriesFrom(positive_links, series_by_asset_id) ==
    IF {link \in positive_links : link.id \notin DOMAIN series_by_asset_id} # {}
    THEN BasketSeriesResult(<<>>,
             SortedSymbols({link.symbol : link \in {l \in positive_links :
                               l.id \notin DOMAIN series_by_asset_id}}),
             Some("Missing historical data for: "
                  \o JoinSymbols(SortedSymbols({link.symbol : link \in {l \in positive_links :
                                                   l.id \notin DOMAIN series_by_asset_id}}))))
    ELSE IF DOMAIN series_by_asset_id = {}
    THEN BasketSeriesResult(<<>>, <<>>, Some("No historical data available."))
    ELSE IF CommonDates(series_by_asset_id) = {}
    THEN BasketSeriesResult(<<>>, <<>>,
             Some("No overlapping historical dates across basket members."))
    ELSE IF InvalidBaselines(positive_links, series_by_asset_id,
                             SortedDates(CommonDates(series_by_asset_id))[1]) # {}
    THEN BasketSeriesResult(<<>>,
             <<(CHOOSE link \in InvalidBaselines(positive_links, series_by_asset_id,
                    SortedDates(CommonDates(series_by_asset_id))[1]) : TRUE).symbol>>,
             Some("Invalid baseline price for "
                  \o (CHOOSE link \in InvalidBaselines(positive_links, series_by_asset_id,
                          SortedDates(CommonDates(series_by_asset_id))[1]) : TRUE).symbol
                  \o "."))
    ELSE BasketSeriesResult(
             CompositePoints(positive_links, _normalized_basket_weights(positive_links),
                             series_by_asset_id,
                             SortedDates(CommonDates(series_by_asset_id))),
             <<>>, None)

\* compute_basket_series; providers says, symbol by symbol, what the
\* provider's historical call does
compute_basket_series(providers, basket_links, start, end) ==
    IF {link \in basket_links : link.asset_type = MARKET /\ ~link.is_archived} = {}
    THEN BasketSeriesResult(<<>>, <<>>, Some("Basket has no active market assets."))
    ELSE IF PositiveLinks({link \in basket_links :
                              link.asset_type = MARKET /\ ~link.is_archived}) = {}
    THEN BasketSeriesResult(<<>>, <<>>,
             Some("Basket members have zero shares. Add holdings to included assets."))
    ELSE BasketSeriesFrom(
             PositiveLinks({link \in basket_links :
                               link.asset_type = MARKET /\ ~link.is_archived}),
             SeriesByAssetId(
                 PositiveLinks({link \in basket_links :
                                   link.asset_type = MARKET /\ ~link.is_archived}),
                 [symbol \in DOMAIN providers |->
                     get_historical_daily(providers[symbol], symbol, start, end).value],
                 start, end))

\* the members of the basket.  Asset 1 (AAA) holds 1..MaxQty shares, has no
\* transaction, or is archived; asset 2 (BBB), if linked, holds shares, has
\* none, has sold its one share, is archived, or was made a MANUAL asset.
MemberKinds == {"held", "none", "sold", "archived", "manual"}

BasketMember(id, symbol, kind, quantity) ==
    [id |-> id, symbol |-> symbol,
     asset_type |-> IF kind = "manual" THEN MANUAL ELSE MARKET,
     is_archived |-> (kind = "archived"),
     transactions |->
        CASE kind = "none" -> <<>>
          [] kind = "manual" -> <<>>
          [] kind = "sold" -> <<ChartTx(id, BUY, 1, One), ChartTx(id + 2, SELL, 1, One)>>
          [] OTHER -> <<ChartTx(id, BUY, 1, R(quantity))>>]

FirstMembers ==
    {BasketMember(1, "AAA", "held", q) : q \in 1..MaxQty}
    \cup {BasketMember(1, "AAA", kind, 1) : kind \in {"none", "archived"}}

SecondMembers ==
    {BasketMember(2, "BBB", "held", q) : q \in 1..MaxQty}
    \cup {BasketMember(2, "BBB", kind, 1) : kind \in MemberKinds \ {"held"}}

\* the provider's points from the close it has for each day, None for none
HistoryOf(closes) ==
    [i \in 1..Cardinality({day \in DOMAIN closes : closes[day] # None}) |->
        HistoricalPoint(SortedDates({day \in DOMAIN closes : closes[day] # None})[i],
                        closes[SortedDates({day \in DOMAIN closes :
                                               closes[day] # None})[i]])]

\* AAA has no close, a close of 1 or a close of MaxPrice on each day
FirstProviders ==
    {[raises |-> FALSE, points |-> HistoryOf(closes)] :
        closes \in [1..MaxDays -> {None, One, R(MaxPrice)}]}

\* BBB: the provider fails, has no point, has only a close of 0, has a close
\* of MaxPrice on every day, or starts on day 2 at 1 and ends at MaxPrice
SecondProviders ==
    {[raises |-> TRUE, points |-> <<>>],
     [raises |-> FALSE, points |-> <<>>],
     [raises |-> FALSE, points |-> <<HistoricalPoint(1, Zero)>>],
     [raises |-> FALSE, points |-> [d \in 1..MaxDays |-> HistoricalPoint(d, R(MaxPrice))]],
     [raises |-> FALSE,
      points |-> <<HistoricalPoint(2, One), HistoricalPoint(MaxDays, R(MaxPrice))>>]}

BasketRanges == {<<1, MaxDays>>, <<2, MaxDays>>, <<2, 2>>}

\* the basket page asks for the index of a range
basket_series ==
    /\ ls.phase = "basket"
    /\ ls' = [ls EXCEPT !.phase = "index",
                        !.result = compute_basket_series(ls.providers, ls.links,
                                                         ls.start, ls.end)]
    /\ UNCHANGED <<assets, txs, outcome, reqs, rp, dash, px>>

InitBasket ==
    /\ LedgerIdle
    /\ rp = ReplayIdle
    /\ DashIdle
    /\ PricingIdle
    /\ \E first \in FirstMembers, second \in SecondMembers, alone \in BOOLEAN :
       \E p1 \in FirstProviders, p2 \in SecondProviders, range \in BasketRanges :
          ls = [phase |-> "basket",
                links |-> IF alone THEN {first} ELSE {first, second},
                providers |-> [symbol \in {"AAA", "BBB"} |->
                                  IF symbol = "AAA" THEN p1 ELSE p2],
                start |-> range[1], end |-> range[2], result |-> None]

NextBasket == basket_series

SpecBasket == InitBasket /\ [][NextBasket]_vars
IndexDone == ls.phase = "index"

\* the active MARKET members of the basket
ActiveMembers == {link \in ls.links : link.asset_type = MARKET /\ ~link.is_archived}

\* the quantity a member holds: bought less sold
MemberHeld(link) == HeldAfter(sort_transactions(link.transactions), Len(link.transactions))

ElementsOf(sequence) == {sequence[i] : i \in DOMAIN sequence}

\* the positive closes the provider has for a member within the range, by date
MemberCloses(link) ==
    IF ls.providers[link.symbol].raises THEN <<>>
    ELSE [date \in {point.date : point \in {q \in ElementsOf(ls.providers[link.symbol].points) :
                       /\ ls.start <= q.date
                       /\ q.date <= ls.end
                       /\ RGt(q.close, Zero)}} |->
             (CHOOSE point \in ElementsOf(ls.providers[link.symbol].points) :
                 point.date = date /\ RGt(point.close, Zero)).close]

MissingMembers == {link \in ActiveMembers : DOMAIN MemberCloses(link) = {}}

\* C33 as stated: when an active MARKET member has no historical data in the
\* range, the result has no point, an error message, and the member's symbol
\* among missing_symbols
C33_MissingMemberFailsSeries ==
    IndexDone =>
        \A link \in MissingMembers :
            /\ ls.result.points = <<>>
            /\ ls.result.error_message # None
            /\ link.symbol \in ElementsOf(ls.result.missing_symbols)

\* C33 amended: that holds for the members that hold shares; a member
\* without shares is never reported missing, and the result has points only
\* if every member that holds shares has data
C33_MissingHeldMemberFailsSeries ==
    IndexDone =>
        /\ \A link \in MissingMembers :
              IF RGt(MemberHeld(link), Zero)
              THEN /\ ls.result.points = <<>>
                   /\ ls.result.error_message # None
                   /\ link.symbol \in ElementsOf(ls.result.missing_symbols)
              ELSE link.symbol \notin ElementsOf(ls.result.missing_symbols)
        /\ ls.result.points # <<>> =>
              /\ ls.result.error_message = None
              /\ \A link \in ActiveMembers :
                    RGt(MemberHeld(link), Zero) => DOMAIN MemberCloses(link) # {}

\* two members that hold shares, one with closes and one without
C33_Witness ==
    /\ IndexDone
    /\ \E link, other \in ActiveMembers :
          /\ RGt(MemberHeld(link), Zero)
          /\ RGt(MemberHeld(other), Zero)
          /\ DOMAIN MemberCloses(link) # {}
          /\ other \in MissingMembers
          /\ ls.result.points = <<>>
          /\ ls.result.missing_symbols = <<other.symbol>>
          /\ ls.result.error_message = Some("Missing historical data for: " \o other.symbol)
\* the dates for which every one of the members has a positive close
SharedDates(members) ==
    {day \in ls.start..ls.end : \A link \in members : day \in DOMAIN MemberCloses(link)}

FirstShared(members) == CHOOSE day \in SharedDates(members) : \A other \in SharedDates(members) : day <= other

TotalHeld(members) == RSum([id \in {link.id : link \in members} |-> MemberHeld(LinkedAsset(members, id))])

\* w_i of the claim
MemberWeight(link, members) == RDiv(MemberHeld(link), TotalHeld(members))

\* the index of the claim on a shared date
ExpectedIndex(day, members) ==
    RSum([id \in {link.id : link \in members} |->
             RMul(MemberWeight(LinkedAsset(members, id), members),
                  RMul(R(100), RDiv(MemberCloses(LinkedAsset(members, id))[day],
                                    MemberCloses(LinkedAsset(members, id))[FirstShared(members)])))])

\* the points of the result are those of the claim for a set of members
IndexOver(members) ==
    /\ {ls.result.points[i].date : i \in DOMAIN ls.result.points} = SharedDates(members)
    /\ Len(ls.result.points) = Cardinality(SharedDates(members))
    /\ \A i \in DOMAIN ls.result.points :
          /\ i > 1 => ls.result.points[i - 1].date < ls.result.points[i].date
          /\ ls.result.points[i].value = ExpectedIndex(ls.result.points[i].date, members)
    /\ ls.result.points # <<>> => ls.result.points[1].value = R(100)
    /\ RSum([id \in {link.id : link \in members} |->
                MemberWeight(LinkedAsset(members, id), members)]) = One

HeldMembers == {link \in ActiveMembers : RGt(MemberHeld(link), Zero)}

\* C34 as stated: when every active MARKET member has data (and shares are
\* held), the points are on the dates all members have, ascending, the
\* first value is 100 and each value is the weighted sum of the members'
\* rebased closes
C34_IndexOverAllMembers ==
    (IndexDone /\ MissingMembers = {} /\ RGt(TotalHeld(ActiveMembers), Zero)) =>
        IndexOver(ActiveMembers)

\* C34 amended: the same over the members that hold shares, when each of
\* them has data; the other members count neither for the dates nor for the
\* values
C34_IndexOverHeldMembers ==
    (IndexDone /\ HeldMembers # {} /\ HeldMembers \cap MissingMembers = {}) =>
        IndexOver(HeldMembers)

\* two members holding different quantities, fewer shared dates than the
\* first member has, and an index that has moved
C34_Witness ==
    /\ IndexDone
    /\ Cardinality(HeldMembers) = 2
    /\ \E link, other \in HeldMembers :
          /\ RGt(MemberHeld(link), MemberHeld(other))
          /\ SharedDates(HeldMembers) # DOMAIN MemberCloses(link)
    /\ Len(ls.result.points) >= 2
    /\ ls.result.points[1].value = R(100)
    /\ ls.result.points[Len(ls.result.points)].value # R(100)
    /\ ls.result.error_message = None
(***************************************************************************)
(* The quote polling endpoint, GET /api/quotes.                            *)
(***************************************************************************)
\* the symbols a request or an asset can carry, in sorted order
PollOrder == <<"AAA", "BBB", "HOUSE", "OLD", "ZZZ">>
PollSymbols == {PollOrder[i] : i \in DOMAIN PollOrder}

\* what symbols.split(",") can give: symbols as stored, in lower case with
\* blanks around, and blank items
RawItems == PollSymbols \cup {"aaa ", " old", "", " "}

\* symbol.strip().upper()
StripUpperItem(raw) ==
    CASE raw = "aaa " -> "AAA"
      [] raw = " old" -> "OLD"
      [] raw = " " -> ""
      [] OTHER -> raw

\* requested_symbols: the items that are not blank, stripped and upper-cased
RequestedSymbols(items) ==
    {StripUpperItem(items[i]) : i \in {j \in DOMAIN items : StripUpperItem(items[j]) # ""}}

\* a filter that lets the symbol of every asset through
AllowedSymbols_AnyAsset(all_assets) == {asset.symbol : asset \in all_assets}

\* allowed_symbols: the symbols of the non-archived MARKET assets
AllowedSymbols(all_assets) ==
    {asset.symbol : asset \in {a \in all_assets : a.asset_type = MARKET /\ ~a.is_archived}}

\* the loop over sorted(requested_symbols & allowed_symbols): the symbols
\* get_quote was called with, the entries of data, and the session
RECURSIVE PollLoop(_, _, _, _, _)
PollLoop(sess, table, symbols, now, provider) ==
    IF symbols = <<>> THEN [calls |-> <<>>, data |-> <<>>, sess |-> sess, raised |-> NoError]
    ELSE LET call == get_quote(sess, table, Head(symbols), now, provider, DashFresh, "ok")
             rest == PollLoop(call.sess, table, Tail(symbols), now, provider)
         IN  IF call.raised # NoError
             THEN [calls |-> <<Head(symbols)>>, data |-> <<>>, sess |-> call.sess,
                   raised |-> call.raised]
             ELSE [calls |-> <<Head(symbols)>> \o rest.calls,
                   data |-> (Head(symbols) :>
                                IF call.value = None
                                THEN [price |-> None, as_of |-> None, stale |-> TRUE]
                                ELSE [price |-> Some(call.value[1].price),
                                      as_of |-> Some(call.value[1].fetched_at),
                                      stale |-> call.value[1].stale,
                                      warning |-> call.value[1].warning])
                            @@ rest.data,
                   sess |-> rest.sess, raised |-> rest.raised]

\* api_quotes: 401 without a user; otherwise the loop and the commit
api_quotes(user, all_assets, items, table, now, provider) ==
    IF ~user
    THEN [status |-> 401, calls |-> <<>>, data |-> <<>>, table |-> table]
    ELSE LET loop == PollLoop(NewSession(table), table,
                         SelectSeq(PollOrder, LAMBDA symbol :
                             symbol \in RequestedSymbols(items) \cap AllowedSymbols(all_assets)),
                         now, provider)
         IN  IF loop.raised # NoError
             THEN [status |-> 500, calls |-> loop.calls, data |-> <<>>, table |-> table]
             ELSE [status |-> 200, calls |-> loop.calls, data |-> loop.data,
                   table |-> Flush(loop.sess).rows]

PollAsset(id, symbol, asset_type, is_archived) ==
    [id |-> id, symbol |-> symbol, asset_type |-> asset_type, is_archived |-> is_archived]

\* the portfolios polled: a MARKET asset AAA that is live, archived, or
\* archived beside a live asset of the same symbol; a MARKET asset BBB; a
\* MANUAL asset HOUSE; an archived MARKET asset OLD
PollPortfolios ==
    {first \cup rest :
        first \in {{}, {PollAsset(1, "AAA", MARKET, FALSE)},
                   {PollAsset(1, "AAA", MARKET, TRUE)},
                   {PollAsset(1, "AAA", MARKET, TRUE), PollAsset(5, "AAA", MARKET, FALSE)}},
        rest \in SUBSET {PollAsset(2, "BBB", MARKET, FALSE), PollAsset(3, "HOUSE", MANUAL, FALSE),
                         PollAsset(4, "OLD", MARKET, TRUE)}}

PollRequests == {<<>>} \cup {<<a>> : a \in RawItems} \cup {<<a, b>> : a, b \in RawItems}

PollTables ==
    {[symbol \in PollSymbols |-> None],
     [symbol \in PollSymbols |-> IF symbol = "AAA" THEN Some(QuoteCache(One, DashNow))
                                 ELSE None],
     [symbol \in PollSymbols |-> IF symbol = "OLD" THEN Some(QuoteCache(One, 0)) ELSE None]}

\* the dashboard page polls the quotes
PollQuotes ==
    /\ px.phase = "poll"
    /\ px' = [px EXCEPT !.phase = "polled",
                        !.response = api_quotes(px.user, px.assets, px.items, px.table,
                                                DashNow, px.provider)]
    /\ UNCHANGED <<assets, txs, outcome, reqs, rp, ls, dash>>

InitPoll ==
    /\ LedgerIdle
    /\ rp = ReplayIdle
    /\ ListIdle
    /\ DashIdle
    /\ \E user \in BOOLEAN, all_assets \in PollPortfolios, items \in PollRequests :
       \E table \in PollTables, provider \in {"ok", "fails"} :
          px = [phase |-> "poll", user |-> user, assets |-> all_assets, items |-> items,
                table |-> table, provider |-> provider, response |-> None]

NextPoll == PollQuotes

SpecPoll == InitPoll /\ [][NextPoll]_vars

\* the symbols that belong to a non-archived MARKET asset of the portfolio
LiveMarketSymbols ==
    {symbol \in PollSymbols : \E asset \in px.assets :
        asset.symbol = symbol /\ asset.asset_type = MARKET /\ ~asset.is_archived}

\* the ways a request can spell a symbol
Spellings(symbol) ==
    {symbol} \cup (IF symbol = "AAA" THEN {"aaa "} ELSE {})
             \cup (IF symbol = "OLD" THEN {" old"} ELSE {})

\* the symbols the request asks for
AskedFor ==
    {symbol \in PollSymbols : \E i \in DOMAIN px.items : px.items[i] \in Spellings(symbol)}

\* C35: get_quote is called, and an entry returned, only for symbols that
\* were asked for and belong to a non-archived MARKET asset; a symbol that
\* only MANUAL, archived or no assets carry is never passed to the pricing
\* service and never in the response
C35_OnlyLiveMarketSymbolsPolled ==
    px.phase = "polled" =>
        /\ \A symbol \in ElementsOf(px.response.calls) \cup DOMAIN px.response.data :
              symbol \in AskedFor /\ symbol \in LiveMarketSymbols
        /\ \A symbol \in PollSymbols \ LiveMarketSymbols :
              /\ symbol \notin ElementsOf(px.response.calls)
              /\ symbol \notin DOMAIN px.response.data
              /\ px.response.table[symbol] = px.table[symbol]
        /\ ~px.user => px.response.calls = <<>> /\ px.response.data = <<>>

\* a request for a live MARKET symbol, a MANUAL one and an archived one
\* that has a cache entry: only the first is answered
C35_Witness ==
    /\ px.phase = "polled"
    /\ px.user
    /\ LiveMarketSymbols # {}
    /\ \E symbol \in AskedFor \cap LiveMarketSymbols :
          /\ px.response.calls = <<symbol>>
          /\ DOMAIN px.response.data = {symbol}
    /\ \E symbol \in AskedFor \ LiveMarketSymbols :
          /\ \E asset \in px.assets : asset.symbol = symbol
          /\ symbol \notin DOMAIN px.response.data
(***************************************************************************)
(* The per-day replays of the charts against the position replays: one     *)
(* asset with a history of up to three transactions, stamped on the day    *)
(* before the range or on its first two days, the n-th entered having id n.*)
(***************************************************************************)
DailyStamps == {0, 1, 2}
DailyLengths == {0, 1, 2, 3}

MarketForms ==
    {Tx(0, BUY, Aware(day, 0), quantity, price, fees, None, None) :
        day \in DailyStamps, quantity \in {One, R(MaxQty)}, price \in {R(MaxPrice)},
        fees \in {Zero, One}}
    \cup {Tx(0, SELL, Aware(day, 0), quantity, R(MaxPrice), Zero, None, None) :
             day \in DailyStamps, quantity \in {One, R(MaxQty - 1)}}

ManualForms ==
    {Tx(0, BUY, Aware(day, 0), quantity, price, Zero, None, None) :
        day \in DailyStamps, quantity \in {One, R(MaxQty)}, price \in {One}}
    \cup {Tx(0, SELL, Aware(day, 0), quantity, One, Zero, None, None) :
             day \in DailyStamps, quantity \in {One}}
    \cup {Tx(0, MANUAL_VALUE_UPDATE, Aware(day, 0), None, None, Zero, value, override) :
             day \in DailyStamps, value \in {Zero, R(MaxPrice)}, override \in {None, One}}

Numbered(forms) == [i \in DOMAIN forms |-> [forms[i] EXCEPT !.id = i]]

\* the histories an asset of a type can have: those the ledger accepts
DailyHistories(asset_type) ==
    {transactions \in {Numbered(forms) : forms \in UNION {
            [1..n -> IF asset_type = MARKET THEN MarketForms ELSE ManualForms] :
                n \in DailyLengths}} :
        validate_asset_transactions(asset_type, transactions) = NoError}

DailyRanges == {<<1, 2>>, <<1, MaxDays>>, <<2, MaxDays>>}

\* the charts replay the history of a MARKET asset day by day
DailyMarket ==
    /\ ls.phase = "daily"
    /\ ls.asset.asset_type = MARKET
    /\ ls' = [ls EXCEPT !.phase = "replayed",
                        !.result = [quantity |-> _market_quantity_by_day(
                                        ls.asset.transactions, _day_range(ls.start, ls.end)),
                                    state |-> _market_state_by_day(
                                        ls.asset.transactions, _day_range(ls.start, ls.end))]]
    /\ UNCHANGED <<assets, txs, outcome, reqs, rp, dash, px>>

\* the P&L overlay of a portfolio whose one asset is a MANUAL asset
DailyManual ==
    /\ ls.phase = "daily"
    /\ ls.asset.asset_type = MANUAL
    /\ ls' = [ls EXCEPT !.phase = "replayed",
                        !.result = compute_overlay_pnl_series({ls.asset}, {},
                                       [raises |-> FALSE, points |-> <<>>],
                                       ls.start, ls.end).value]
    /\ UNCHANGED <<assets, txs, outcome, reqs, rp, dash, px>>

InitDaily ==
    /\ LedgerIdle
    /\ rp = ReplayIdle
    /\ DashIdle
    /\ PricingIdle
    /\ \E asset_type \in AssetType, range \in DailyRanges :
       \E transactions \in DailyHistories(asset_type) :
          ls = [phase |-> "daily",
                asset |-> ChartAsset(1, asset_type, FALSE, transactions),
                start |-> range[1], end |-> range[2], result |-> None]

NextDaily == DailyMarket \/ DailyManual

SpecDaily == InitDaily /\ [][NextDaily]_vars

DailyDone(asset_type) == ls.phase = "replayed" /\ ls.asset.asset_type = asset_type

\* the section 4.3 replay of the asset's transactions up to the end of a day
ManualThrough(day) == compute_manual_position(TxsThrough(ls.asset, day))

\* C36 as stated: the overlay's value of a MANUAL asset on each day is the
\* replay's current_value - invested_total when that invested_total is
\* positive, and 0 otherwise
C36_ManualPnlAgreesWithReplay ==
    DailyDone(MANUAL) =>
        /\ ls.result.error_message = None
        /\ \A day \in ls.start..ls.end :
              ls.result.series_by_label[ls.asset.symbol][day - ls.start + 1]
                  = IF RGt(ManualThrough(day).invested_total, Zero)
                    THEN RSub(ManualThrough(day).current_value,
                              ManualThrough(day).invested_total)
                    ELSE Zero
\* the position replay of the asset's transactions up to the end of a day
MarketThrough(day) == compute_market_position(TxsThrough(ls.asset, day))

\* C37 as stated: on each day of the range the quantity of
\* _market_quantity_by_day and the (quantity, avg_cost) of
\* _market_state_by_day are those of compute_market_position on the
\* transactions up to the end of the day
C37_DailyReplaysEqualPosition ==
    DailyDone(MARKET) =>
        \A day \in ls.start..ls.end :
            /\ MarketThrough(day).raised = NoError
            /\ ls.result.quantity[day] = MarketThrough(day).quantity
            /\ ls.result.state[day] = <<MarketThrough(day).quantity, MarketThrough(day).avg_cost>>

\* the SELLs of the asset up to the end of a day
SellsThrough(day) ==
    Len(SelectSeq(TxsThrough(ls.asset, day), LAMBDA tx : _tx_type(tx) = SELL))

\* C37 amended: _market_state_by_day gives the position's quantity and
\* avg_cost; _market_quantity_by_day gives the running quantity, bought less
\* sold, which is the position's quantity or more, by at most 1e-9 for each
\* SELL: the position rounds what a SELL leaves to 0 when it is 1e-9 or less
C37_DailyReplaysEqualPositionButDust ==
    DailyDone(MARKET) =>
        \A day \in ls.start..ls.end :
            /\ MarketThrough(day).raised = NoError
            /\ ls.result.state[day] = <<MarketThrough(day).quantity, MarketThrough(day).avg_cost>>
            /\ ls.result.quantity[day] = HeldQuantity(ls.asset, day)
            /\ RLe(MarketThrough(day).quantity, ls.result.quantity[day])
            /\ RLe(RSub(ls.result.quantity[day], MarketThrough(day).quantity),
                   RMul(EpsR, R(SellsThrough(day))))

\* a BUY before the range, a BUY with fees and a SELL within it: the average
\* cost moves and stays, and the quantities agree on every day
C37_Witness ==
    /\ DailyDone(MARKET)
    /\ Len(ls.asset.transactions) = 3
    /\ \E i \in DOMAIN ls.asset.transactions :
          ls.asset.transactions[i].type = BUY /\ _tx_timestamp(ls.asset.transactions[i]) < ls.start
    /\ \E i \in DOMAIN ls.asset.transactions :
          /\ ls.asset.transactions[i].type = SELL
          /\ _tx_timestamp(ls.asset.transactions[i]) = ls.end
    /\ ls.result.state[ls.start] # ls.result.state[ls.end]
    /\ RGt(ls.result.state[ls.end][1], Zero)
    /\ ls.result.state[ls.end][2] \notin {Zero, One, R(MaxPrice)}
    /\ ls.result.quantity[ls.end] = MarketThrough(ls.end).quantity
(***************************************************************************)
(* The loop variables of compute_manual_position, transaction by           *)
(* transaction, with the amounts the forms let through: _parse_float takes *)
(* "inf" for a price (float("inf") is not negative).                       *)
(***************************************************************************)
BasisTxs(n) ==
    {Tx(n, BUY, Aware(n, 0), q, p, f, None, None) :
        q \in {One, R(MaxQty)}, p \in {Zero, One, PosInf}, f \in {Zero, One}}
    \cup {Tx(n, SELL, Aware(n, 0), q, One, Zero, None, None) : q \in {One, R(MaxQty)}}
    \cup {Tx(n, MANUAL_VALUE_UPDATE, Aware(n, 0), None, None, Zero, R(MaxPrice), o) :
             o \in {None, Zero, R(MaxQty)}}

\* compute_manual_position: the loop takes the next transaction of the sorted list
BasisReplayStep ==
    /\ rp.kind = MANUAL
    /\ rp.st.error = NoError
    /\ rp.n < MaxReplayLen
    /\ \E tx \in BasisTxs(rp.n + 1) : ReplayAdvance(tx, ManualStep(rp.st, tx))
    /\ UNCHANGED <<assets, txs, outcome, reqs, ls, dash, px>>

InitBasis ==
    /\ LedgerIdle
    /\ ListIdle
    /\ DashIdle
    /\ PricingIdle
    /\ rp = ReplayStart(MANUAL)

NextBasis == BasisReplayStep

SpecBasis == InitBasis /\ [][NextBasis]_vars

\* the invariant of the claim on the loop variables
BasisInvariant(st) ==
    /\ RLe(Zero, st.held_quantity)
    /\ RLe(Zero, st.invested_total)
    /\ st.invested_total = RMul(st.avg_cost, st.held_quantity)
    /\ st.held_quantity = Zero => st.invested_total = Zero /\ st.avg_cost = Zero

\* C38: after every accepted transaction held_quantity >= 0,
\* invested_total >= 0, invested_total = avg_cost x held_quantity, and
\* invested_total and avg_cost are 0 when held_quantity is 0
C38_ManualBasisInvariant ==
    (rp.kind = MANUAL /\ rp.n > 0 /\ rp.st.error = NoError) => BasisInvariant(rp.st)

\* ---------------------------------------------------------------------------
\* a SELL of a MARKET asset and the cost basis
\* ---------------------------------------------------------------------------

\* the prices a SELL may carry that the replay calls positive
PositiveSellPrices == {price \in Prices \cup {PosInf} : RGt(price, Zero)}

\* the SELL just replayed, with another price and other fees
SellVariant(price, fees) == [rp.tx EXCEPT !.price = price, !.fees = fees]

\* C39: an accepted SELL of a MARKET asset that leaves a positive quantity
\* leaves avg_cost as it was, and the replay gives the same position for every
\* positive price and every fee of that SELL.
C39_SellKeepsCostBasis ==
    ( MarketStepOf(SELL) /\ Accepted /\ RGt(rp.st.qty, Zero) )
    => /\ rp.st.avg_cost = rp.prev.avg_cost
       /\ \A price \in PositiveSellPrices : \A fees \in Fees :
             MarketStep(rp.prev, SellVariant(price, fees)) = rp.st

\* C39 witness: part of a costly position was sold at a price other than its
\* average cost, and some of it is still held
C39_Witness ==
    /\ MarketStepOf(SELL) /\ Accepted
    /\ RGt(rp.st.qty, Zero)
    /\ RGt(rp.prev.avg_cost, Zero)
    /\ rp.tx.price # rp.prev.avg_cost
    /\ rp.st.qty # rp.prev.qty

(***************************************************************************)
(* archive_asset and the pages.  The portfolio has the MARKET assets AAA   *)
(* and BBB, each with one BUY, and the MANUAL asset HOUSE with one value   *)
(* update; basket 1 links AAA and BBB, basket 2 links BBB alone.  Assets   *)
(* are archived, and restored through the edit form, and then the          *)
(* dashboard is read with its charts.                                      *)
(***************************************************************************)
ArchiveIds == {1, 2, 3}

ArchiveAssets ==
    [asset_id \in ArchiveIds |->
        [symbol |-> IF asset_id = 1 THEN "AAA" ELSE IF asset_id = 2 THEN "BBB" ELSE "HOUSE",
         asset_type |-> IF asset_id = 3 THEN MANUAL ELSE MARKET,
         name |-> "Asset", group_id |-> 1, is_archived |-> FALSE]]

ArchiveRows ==
    {Row(1, 1, ChartTx(1, BUY, 1, R(MaxQty))), Row(2, 2, ChartTx(2, BUY, 2, One)),
     Row(3, 3, ChartValue(3, 1, R(MaxPrice)))}

ArchiveBaskets == {ChartBasket(1, "Basket 1", {1, 2}), ChartBasket(2, "Basket 2", {2})}

ArchiveTable == [symbol \in {"AAA", "BBB"} |-> None]

\* the provider's history of every symbol: it raises, has no point, or two
ArchiveProviders ==
    {[raises |-> TRUE, points |-> <<>>], [raises |-> FALSE, points |-> <<>>],
     [raises |-> FALSE,
      points |-> <<HistoricalPoint(1, One), HistoricalPoint(MaxDays, R(MaxPrice))>>]}

\* asset.transactions: the rows of the asset, here in id order
RECURSIVE RowsInIdOrder(_)
RowsInIdOrder(rows) ==
    IF rows = {} THEN <<>>
    ELSE LET last == CHOOSE row \in rows : \A other \in rows : other.id <= row.id
         IN  Append(RowsInIdOrder(rows \ {last}), last)

GroupName(group_id) == IF group_id = 1 THEN "Core" ELSE "Satellite"

\* the Asset objects a query on the portfolio loads, with their group and
\* their transactions
PortfolioAssets ==
    {[id |-> asset_id, symbol |-> assets[asset_id].symbol, name |-> assets[asset_id].name,
      group_name |-> GroupName(assets[asset_id].group_id),
      asset_type |-> assets[asset_id].asset_type,
      is_archived |-> assets[asset_id].is_archived,
      transactions |-> RowsInIdOrder(AssetRows(txs, asset_id)), provider |-> "ok"] :
        asset_id \in DOMAIN assets}

PagesUnread == dash.phase = "open" /\ ls.phase = "open"

\* POST /assets/{asset_id}/archive
ArchiveOne == PagesUnread /\ \E asset_id \in ArchiveIds : archive_asset(asset_id)

\* the edit form posted with the archived box unticked
RestoreOne ==
    /\ PagesUnread
    /\ \E asset_id \in ArchiveIds :
          asset_edit_submit(asset_id, EditForm("Renamed", "", assets[asset_id].asset_type,
                                               "2", FALSE))

\* GET /: the snapshot, the two allocation charts, the portfolio chart and
\* the P&L overlay of the range, all read in the one request
ArchivePage ==
    /\ PagesUnread
    /\ dash' = RenderedPage([now |-> DashNow, assets |-> PortfolioAssets,
                             baskets |-> ArchiveBaskets, table |-> dash.table],
                            build_dashboard_snapshot(PortfolioAssets, ArchiveBaskets,
                                                     dash.table, DashNow))
    /\ ls' = [phase |-> "charts", assets |-> PortfolioAssets, baskets |-> ArchiveBaskets,
              provider |-> ls.provider, start |-> ls.start, end |-> ls.end,
              portfolio_series |-> compute_portfolio_series(PortfolioAssets, ls.provider,
                                                            ls.start, ls.end),
              pnl_overlay |-> compute_overlay_pnl_series(PortfolioAssets, ArchiveBaskets,
                                                         ls.provider, ls.start, ls.end)]
    /\ UNCHANGED <<assets, txs, outcome, reqs, rp, px>>

InitArchive ==
    /\ assets = ArchiveAssets
    /\ txs = ArchiveRows
    /\ outcome = [op |-> "none", result |-> "none"]
    /\ reqs = {}
    /\ rp = ReplayIdle
    /\ PricingIdle
    /\ dash = [phase |-> "open", table |-> ArchiveTable]
    /\ \E provider \in ArchiveProviders, start \in {1, 2} :
          ls = [phase |-> "open", provider |-> provider, start |-> start, end |-> MaxDays]

NextArchive == ArchiveOne \/ RestoreOne \/ ArchivePage

SpecArchive == InitArchive /\ [][NextArchive]_vars

\* the loaded assets that are not archived, and the baskets without their
\* links to the other assets
Unarchived(all_assets) == {asset \in all_assets : ~asset.is_archived}
Archived(all_assets) == {asset \in all_assets : asset.is_archived}

WithoutLinksTo(baskets, gone) ==
    {ChartBasket(basket.id, basket.name,
                 basket.links \ {asset.id : asset \in gone}) : basket \in baskets}

ArchivedLabels(all_assets) ==
    {asset.symbol : asset \in Archived(all_assets)}
        \ {asset.symbol : asset \in Unarchived(all_assets)}

\* C40: the transactions are what they were before any asset was archived;
\* the dashboard has no row, no basket member and no allocation slice of an
\* archived asset, and the snapshot, the portfolio series and the overlay P&L
\* series are what they are for the portfolio without the archived assets
\* and without the basket links to them.
C40_ArchivedAssetContributesNothing ==
    /\ txs = ArchiveRows
    /\ dash.phase = "rendered" =>
          /\ \A row \in dash.snapshot.positions : \A asset \in Archived(dash.assets) :
                /\ row.asset_id # asset.id
                /\ asset.id \notin row.basket_member_ids
          /\ \A asset \in Archived(dash.assets) :
                asset.id \notin dash.snapshot.basket_member_asset_ids
          /\ dash.asset_allocation.labels \cap ArchivedLabels(dash.assets) = {}
          /\ dash.snapshot = build_dashboard_snapshot(Unarchived(dash.assets),
                                 WithoutLinksTo(dash.baskets, Archived(dash.assets)),
                                 dash.table_before, dash.now)
    /\ ls.phase = "charts" =>
          /\ ls.portfolio_series = compute_portfolio_series(Unarchived(ls.assets),
                                       ls.provider, ls.start, ls.end)
          /\ ls.pnl_overlay = compute_overlay_pnl_series(Unarchived(ls.assets),
                                  WithoutLinksTo(ls.baskets, Archived(ls.assets)),
                                  ls.provider, ls.start, ls.end)

\* C40 witness: BBB, a member of both baskets, is archived while AAA is
\* not, and the dashboard was drawn with both charts
C40_Witness ==
    /\ dash.phase = "rendered" /\ ls.phase = "charts"
    /\ \E asset \in Archived(ls.assets) : asset.id = 2
    /\ \E asset \in Unarchived(ls.assets) : asset.id = 1
    /\ ls.portfolio_series.raised = NoError
    /\ ls.portfolio_series.value.error_message = None
    /\ ls.pnl_overlay.raised = NoError
    /\ ls.pnl_overlay.value.error_message = None

====
